---- MODULE Spec2Model ----
(***************************************************************************)
(* Model of the trappy-sdl platformer runtime: AABB collision detection    *)
(* and resolution (collision_system.cpp), the disappearing platform state  *)
(* machine (disappearing_platform.cpp), the platforms, the projectiles and *)
(* the player movement state machine (player.cpp), the tile map and its    *)
(* layers (map.cpp, layer.cpp, tmx_parser.cpp) and the simulation tick     *)
(* (game.cpp).                                                             *)
(*                                                                         *)
(* Coordinates, sizes, velocities and times are exact integers (one unit   *)
(* is a whole number of pixels or of time steps); float rounding is not    *)
(* modelled.  A rectangle SDL_FRect is a record [x, y, w, h].              *)
(***************************************************************************)
EXTENDS Integers, Sequences, FiniteSets, TLC

VARIABLES
  a,        \* first box handed to the CollisionSystem pure functions
  b,        \* second box
  out,      \* result of the last pure-function call
  player,   \* the RectPlayer's fields
  plat,     \* a Platform or TrapPlatform tile
  dp,       \* a DisappearingPlatform
  proj,     \* a Projectile
  calls,    \* onCollision calls made by the last operation, in order
  lastOp,   \* the last operation and what it was given
  cyc,      \* update calls seen since the platform was last triggered
  jumpRuns, \* two players run side by side on inputs that differ in jump only
  map,      \* the Map: layers, legacy tile grid, projectiles, platforms
  game      \* the Game's flags and what its last tick did

geomVars == <<a, b, out>>

worldVars == <<player, plat, dp, proj, calls, lastOp, cyc>>

gameVars == <<jumpRuns, map, game>>

vars == <<a, b, out, player, plat, dp, proj, calls, lastOp, cyc,
          jumpRuns, map, game>>

\* ------------------------------------------------------------------------
\* Bounds of the model
\* ------------------------------------------------------------------------
MaxCoord == 2
MaxSize == 2

\* ------------------------------------------------------------------------
\* Helpers
\* ------------------------------------------------------------------------
Min(p, q) == IF p < q THEN p ELSE q

Max(p, q) == IF p > q THEN p ELSE q

Rect(x, y, w, h) == [x |-> x, y |-> y, w |-> w, h |-> h]

NoOut == [op |-> "none"]

Boxes == [x : (-MaxCoord)..MaxCoord, y : (-MaxCoord)..MaxCoord,
          w : 0..MaxSize, h : 0..MaxSize]

\* ------------------------------------------------------------------------
\* CollisionSystem pure functions
\* ------------------------------------------------------------------------
checkAABB_inclusive(p, q) ==
  /\ p.x <= q.x + q.w
  /\ p.x + p.w > q.x
  /\ p.y < q.y + q.h
  /\ p.y + p.h > q.y

checkAABB(p, q) ==
  /\ p.x < q.x + q.w
  /\ p.x + p.w > q.x
  /\ p.y < q.y + q.h
  /\ p.y + p.h > q.y

\* a.x + a.w / 2 < b.x + b.w / 2 is compared on doubled values, which is
\* the same comparison without fractions.
computeCollisionInfo_tieHorizontal(p, q) ==
  LET overlapX == Min(p.x + p.w, q.x + q.w) - Max(p.x, q.x)
      overlapY == Min(p.y + p.h, q.y + q.h) - Max(p.y, q.y)
  IN  IF overlapX <= overlapY
      THEN [normalX |-> IF 2 * p.x + p.w < 2 * q.x + q.w THEN -1 ELSE 1,
            normalY |-> 0,
            penetration |-> overlapX]
      ELSE [normalX |-> 0,
            normalY |-> IF 2 * p.y + p.h < 2 * q.y + q.h THEN -1 ELSE 1,
            penetration |-> overlapY]

computeCollisionInfo_signFlipped(p, q) ==
  LET overlapX == Min(p.x + p.w, q.x + q.w) - Max(p.x, q.x)
      overlapY == Min(p.y + p.h, q.y + q.h) - Max(p.y, q.y)
  IN  IF overlapX < overlapY
      THEN [normalX |-> IF 2 * p.x + p.w < 2 * q.x + q.w THEN 1 ELSE -1,
            normalY |-> 0,
            penetration |-> overlapX]
      ELSE [normalX |-> 0,
            normalY |-> IF 2 * p.y + p.h < 2 * q.y + q.h THEN 1 ELSE -1,
            penetration |-> overlapY]

computeCollisionInfo(p, q) ==
  LET overlapX == Min(p.x + p.w, q.x + q.w) - Max(p.x, q.x)
      overlapY == Min(p.y + p.h, q.y + q.h) - Max(p.y, q.y)
  IN  IF overlapX < overlapY
      THEN [normalX |-> IF 2 * p.x + p.w < 2 * q.x + q.w THEN -1 ELSE 1,
            normalY |-> 0,
            penetration |-> overlapX]
      ELSE [normalX |-> 0,
            normalY |-> IF 2 * p.y + p.h < 2 * q.y + q.h THEN -1 ELSE 1,
            penetration |-> overlapY]

\* ------------------------------------------------------------------------
\* Configuration (include/config.h).  One length unit is 8 pixels and one
\* time unit is one simulation step; fractions of the configuration are
\* given as numerator and denominator.
\* ------------------------------------------------------------------------
PLAYER_WIDTH == 4
PLAYER_HEIGHT == 6
PLAYER_GRAVITY == 1
PLAYER_SPEED == 2
PLAYER_JUMP_FORCE == 4
PLAYER_JUMP_REDUCED_FORCE == 2
PLAYER_JUMP_DURATION == 4
PLAYER_FAST_FALL_SPEED == 1
PLAYER_DASH_SPEED == 2
PLAYER_DASH_DURATION == 2
PLAYER_DASH_COOLDOWN == 3
SLOW_MULTIPLIER_DEN == 2
SLOW_SPEED_MULTIPLIER_NUM == 1
SLOW_JUMP_MULTIPLIER_NUM == 1
TRAP_HITBOX_REDUCTION_PERCENT == 50
DISAPPEAR_DELAY == 3
REAPPEAR_DELAY == 2
DEFAULT_TILE_WIDTH == 4
DEFAULT_TILE_HEIGHT == 4
ARROW_SPEED == 2
ARROW_WIDTH == 2
ARROW_HEIGHT == 2
GROUND_CHECK_HEIGHT == 2
PLAYER_START_X == 0
PLAYER_START_Y == 0
BACK_GROUND == "background"
COINS_LAYER_NAME == "coins"
DISAPPEAR_LAYER_NAME == "disappearing"
TRAPS_LAYER_NAME == "traps"
ARROW_LAYER_NAME == "arrows"
SLOW_LAYER_NAME == "slow"
\* Projectile::bobAmplitude, 16 pixels
bobAmplitude == 2

\* v * percent / 100
Pct(v, percent) == (v * percent) \div 100

Abs(v) == IF v < 0 THEN -v ELSE v

MovementStates == {"IDLE", "MOVING", "JUMPING", "CROUCHING"}

\* The *_PERCENT hitbox constants selected by the switch on the state.
HitboxPercents(state) ==
  CASE state = "CROUCHING" ->
         [yOffset |-> 50, heightReduction |-> 50, xOffsetRight |-> 0,
          xOffsetLeft |-> 0, widthReduction |-> 0]
    [] state = "MOVING" ->
         [yOffset |-> 0, heightReduction |-> 0, xOffsetRight |-> 25,
          xOffsetLeft |-> 0, widthReduction |-> 25]
    [] state = "IDLE" ->
         [yOffset |-> 0, heightReduction |-> 0, xOffsetRight |-> 25,
          xOffsetLeft |-> 25, widthReduction |-> 50]
    [] state = "JUMPING" ->
         [yOffset |-> 0, heightReduction |-> 50, xOffsetRight |-> 0,
          xOffsetLeft |-> 25, widthReduction |-> 25]

\* ------------------------------------------------------------------------
\* Objects.  Every Collideable is named; W is a record of the objects'
\* fields and of the callback log, [player, plat, dp, proj, calls].
\* ------------------------------------------------------------------------
Objects == {"player", "plat", "dp", "proj"}

EmptyRect == Rect(0, 0, 0, 0)

getType(obj) ==
  CASE obj = "player" -> "PLAYER"
    [] obj = "proj" -> "PROJECTILE"
    [] OTHER -> "STATIC_OBJECT"

\* RectPlayer::getCollisionBounds
playerGetCollisionBounds(p) ==
  LET pc == HitboxPercents(p.state)
      yOffset == Pct(p.rect_h, pc.yOffset)
      heightReduction == Pct(p.rect_h, pc.heightReduction)
      widthReduction == Pct(p.rect_w, pc.widthReduction)
  IN  [x |-> p.rect_x + (IF p.lastDirection = 1
                         THEN Pct(p.rect_w, pc.xOffsetRight)
                         ELSE Pct(p.rect_w, pc.xOffsetLeft)),
       y |-> p.rect_y + yOffset,
       w |-> p.rect_w - widthReduction,
       h |-> p.rect_h - heightReduction]

\* TrapPlatform constructor: reducedBounds
trapReducedBounds(bounds) ==
  LET widthReduction == Pct(bounds.w, TRAP_HITBOX_REDUCTION_PERCENT)
      heightReduction == Pct(bounds.h, TRAP_HITBOX_REDUCTION_PERCENT)
  IN  [x |-> bounds.x + widthReduction \div 2,
       y |-> bounds.y + heightReduction \div 2,
       w |-> bounds.w - widthReduction,
       h |-> bounds.h - heightReduction]

\* Platform::getCollisionBounds / TrapPlatform::getCollisionBounds
platGetCollisionBounds(t) ==
  IF t.type = "TRAP" THEN t.reducedBounds ELSE t.bounds

canCollide(d) == d.state = "VISIBLE"

isVisible(d) == d.state = "VISIBLE" \/ d.state = "DISAPPEARING"

dpGetCollisionBounds_whileVisible(d) ==
  IF ~isVisible(d) THEN EmptyRect ELSE d.bounds

\* DisappearingPlatform::getCollisionBounds
dpGetCollisionBounds(d) ==
  IF ~canCollide(d) THEN EmptyRect ELSE d.bounds

getCollisionBounds(W, obj) ==
  CASE obj = "player" -> playerGetCollisionBounds(W.player)
    [] obj = "plat" -> platGetCollisionBounds(W.plat)
    [] obj = "dp" -> dpGetCollisionBounds(W.dp)
    [] obj = "proj" -> W.proj.bounds

getPos(W, obj) ==
  CASE obj = "player" -> [x |-> W.player.pos_x, y |-> W.player.pos_y]
    [] obj = "plat" -> [x |-> W.plat.bounds.x, y |-> W.plat.bounds.y]
    [] obj = "dp" -> [x |-> W.dp.bounds.x, y |-> W.dp.bounds.y]
    [] obj = "proj" -> [x |-> W.proj.bounds.x, y |-> W.proj.bounds.y]

\* RectPlayer::setPos
playerSetPos(p, x, y) ==
  [p EXCEPT !.pos_x = x, !.pos_y = y, !.rect_x = x, !.rect_y = y]

setPos(W, obj, x, y) ==
  CASE obj = "player" -> [W EXCEPT !.player = playerSetPos(W.player, x, y)]
    [] obj = "plat" -> [W EXCEPT !.plat.bounds.x = x, !.plat.bounds.y = y]
    [] obj = "dp" -> [W EXCEPT !.dp.bounds.x = x, !.dp.bounds.y = y]
    [] obj = "proj" -> [W EXCEPT !.proj.bounds.x = x, !.proj.bounds.y = y]

\* RectPlayer::resetJump
resetJump(p) == [p EXCEPT !.jumpTimer = 0, !.isJumping = FALSE]

\* RectPlayer::setGrounded
setGrounded(p, grounded) ==
  LET q == [p EXCEPT !.onGround = grounded]
  IN  IF grounded THEN resetJump(q) ELSE q

\* RectPlayer::setDead (declared in include/player.h)
setDead(p, dead) == [p EXCEPT !.dead = dead]

playerOnCollision_ceilingStopsFall(p, normalX, normalY, penetration) ==
  IF 2 * Abs(normalY) > 1
  THEN IF normalY < 0
       THEN resetJump(setGrounded([p EXCEPT !.vel_y = 0], TRUE))
       ELSE setGrounded([p EXCEPT !.vel_y = 0], FALSE)
  ELSE IF 2 * Abs(normalX) > 1
       THEN setGrounded([p EXCEPT !.vel_x = 0], FALSE)
       ELSE p

\* RectPlayer::onCollision; |n| > 0.5 is 2 * |n| > 1
playerOnCollision(p, normalX, normalY, penetration) ==
  IF 2 * Abs(normalY) > 1
  THEN IF normalY < 0
       THEN resetJump(setGrounded([p EXCEPT !.vel_y = 0], TRUE))
       ELSE setGrounded([p EXCEPT !.vel_y = IF p.vel_y < 0 THEN 0 ELSE @],
                        FALSE)
  ELSE IF 2 * Abs(normalX) > 1
       THEN setGrounded([p EXCEPT !.vel_x = 0], FALSE)
       ELSE p

trapOnCollision_anyContact(W, other) ==
  [W EXCEPT !.player = setDead(W.player, TRUE)]

\* TrapPlatform::onCollision
trapOnCollision(W, other) ==
  IF getType(other) = "PLAYER"
  THEN [W EXCEPT !.player = setDead(W.player, TRUE)]
  ELSE W

dpOnCollision_anyPlayerContact(d, otherType, normalX, normalY, penetration) ==
  IF d.state # "VISIBLE"
  THEN d
  ELSE IF otherType = "PLAYER" /\ ~d.triggered
       THEN [d EXCEPT !.triggered = TRUE, !.state = "DISAPPEARING",
                      !.timer = 0]
       ELSE d

dpOnCollision_noStateGuard(d, otherType, normalX, normalY, penetration) ==
  IF otherType = "PLAYER" /\ normalY > 0
  THEN [d EXCEPT !.triggered = TRUE, !.state = "DISAPPEARING", !.timer = 0]
  ELSE d

\* DisappearingPlatform::onCollision in which a hit on a platform that is
\* not VISIBLE restarts its timer
dpOnCollision_hitRestartsTimer(d, otherType, normalX, normalY, penetration) ==
  IF d.state # "VISIBLE"
  THEN [d EXCEPT !.timer = 0]
  ELSE IF otherType = "PLAYER" /\ normalY > 0 /\ ~d.triggered
       THEN [d EXCEPT !.triggered = TRUE, !.state = "DISAPPEARING",
                      !.timer = 0]
       ELSE d

\* DisappearingPlatform::onCollision
dpOnCollision(d, otherType, normalX, normalY, penetration) ==
  IF d.state # "VISIBLE"
  THEN d
  ELSE IF otherType = "PLAYER" /\ normalY > 0 /\ ~d.triggered
       THEN [d EXCEPT !.triggered = TRUE, !.state = "DISAPPEARING",
                      !.timer = 0]
       ELSE d

dpUpdate_strictDelay(d, dt) ==
  LET timer == IF d.state # "VISIBLE" THEN d.timer + dt ELSE d.timer
  IN  CASE d.state = "VISIBLE" -> d
        [] d.state = "DISAPPEARING" ->
             IF timer > DISAPPEAR_DELAY
             THEN [d EXCEPT !.state = "DISAPPEARED", !.timer = 0]
             ELSE [d EXCEPT !.timer = timer]
        [] d.state = "DISAPPEARED" ->
             IF timer >= REAPPEAR_DELAY
             THEN [d EXCEPT !.state = "REAPPEARING", !.timer = 0]
             ELSE [d EXCEPT !.timer = timer]
        [] d.state = "REAPPEARING" ->
             [d EXCEPT !.state = "VISIBLE", !.triggered = FALSE, !.timer = 0]

RECURSIVE dpUpdate_catchesUp(_, _)
dpUpdate_catchesUp(d, dt) ==
  LET timer == IF d.state # "VISIBLE" THEN d.timer + dt ELSE d.timer
  IN  CASE d.state = "VISIBLE" -> d
        [] d.state = "DISAPPEARING" ->
             IF timer >= DISAPPEAR_DELAY
             THEN dpUpdate_catchesUp(
                    [d EXCEPT !.state = "DISAPPEARED", !.timer = 0],
                    timer - DISAPPEAR_DELAY)
             ELSE [d EXCEPT !.timer = timer]
        [] d.state = "DISAPPEARED" ->
             IF timer >= REAPPEAR_DELAY
             THEN [d EXCEPT !.state = "REAPPEARING", !.timer = 0]
             ELSE [d EXCEPT !.timer = timer]
        [] d.state = "REAPPEARING" ->
             [d EXCEPT !.state = "VISIBLE", !.triggered = FALSE, !.timer = 0]

\* DisappearingPlatform::update that reappears with the latch still set
dpUpdate_keepsLatch(d, dt) ==
  LET timer == IF d.state # "VISIBLE" THEN d.timer + dt ELSE d.timer
  IN  CASE d.state = "VISIBLE" -> d
        [] d.state = "DISAPPEARING" ->
             IF timer >= DISAPPEAR_DELAY
             THEN [d EXCEPT !.state = "DISAPPEARED", !.timer = 0]
             ELSE [d EXCEPT !.timer = timer]
        [] d.state = "DISAPPEARED" ->
             IF timer >= REAPPEAR_DELAY
             THEN [d EXCEPT !.state = "REAPPEARING", !.timer = 0]
             ELSE [d EXCEPT !.timer = timer]
        [] d.state = "REAPPEARING" ->
             [d EXCEPT !.state = "VISIBLE", !.timer = 0]

\* DisappearingPlatform::update
dpUpdate(d, dt) ==
  LET timer == IF d.state # "VISIBLE" THEN d.timer + dt ELSE d.timer
  IN  CASE d.state = "VISIBLE" -> d
        [] d.state = "DISAPPEARING" ->
             IF timer >= DISAPPEAR_DELAY
             THEN [d EXCEPT !.state = "DISAPPEARED", !.timer = 0]
             ELSE [d EXCEPT !.timer = timer]
        [] d.state = "DISAPPEARED" ->
             IF timer >= REAPPEAR_DELAY
             THEN [d EXCEPT !.state = "REAPPEARING", !.timer = 0]
             ELSE [d EXCEPT !.timer = timer]
        [] d.state = "REAPPEARING" ->
             [d EXCEPT !.state = "VISIBLE", !.triggered = FALSE, !.timer = 0]

\* Projectile::resetToOriginalPosition
resetToOriginalPosition(pr) ==
  [pr EXCEPT !.bounds.x = pr.originalX, !.bounds.y = pr.originalY,
             !.shouldRemove = FALSE]

\* Projectile::markForRemoval
markForRemoval(pr) == [pr EXCEPT !.shouldRemove = TRUE]

\* Projectile::onCollision in which an arrow that hits the player is used up
projOnCollision_arrowIsUsedUp(W, other) ==
  LET otherType == getType(other)
  IN  IF otherType = "PLAYER"
      THEN IF W.proj.projectileType = "COIN"
           THEN [W EXCEPT !.proj = markForRemoval(W.proj)]
           ELSE IF W.proj.projectileType = "ARROW"
                THEN [W EXCEPT !.player = setDead(W.player, TRUE),
                               !.proj = markForRemoval(W.proj)]
                ELSE W
      ELSE IF otherType = "STATIC_OBJECT"
           THEN IF W.proj.projectileType = "ARROW"
                THEN [W EXCEPT !.proj = resetToOriginalPosition(W.proj)]
                ELSE [W EXCEPT !.proj = markForRemoval(W.proj)]
           ELSE W

\* Projectile::onCollision in which an arrow that hits the player respawns
projOnCollision_arrowRespawns(W, other) ==
  LET otherType == getType(other)
  IN  IF otherType = "PLAYER"
      THEN IF W.proj.projectileType = "COIN"
           THEN [W EXCEPT !.proj = markForRemoval(W.proj)]
           ELSE IF W.proj.projectileType = "ARROW"
                THEN [W EXCEPT !.player = setDead(W.player, TRUE),
                               !.proj = resetToOriginalPosition(W.proj)]
                ELSE W
      ELSE IF otherType = "STATIC_OBJECT"
           THEN IF W.proj.projectileType = "ARROW"
                THEN [W EXCEPT !.proj = resetToOriginalPosition(W.proj)]
                ELSE [W EXCEPT !.proj = markForRemoval(W.proj)]
           ELSE W

\* Projectile::onCollision
projOnCollision(W, other) ==
  LET otherType == getType(other)
  IN  IF otherType = "PLAYER"
      THEN IF W.proj.projectileType = "COIN"
           THEN [W EXCEPT !.proj = markForRemoval(W.proj)]
           ELSE IF W.proj.projectileType = "ARROW"
                THEN [W EXCEPT !.player = setDead(W.player, TRUE)]
                ELSE W
      ELSE IF otherType = "STATIC_OBJECT"
           THEN IF W.proj.projectileType = "ARROW"
                THEN [W EXCEPT !.proj = resetToOriginalPosition(W.proj)]
                ELSE [W EXCEPT !.proj = markForRemoval(W.proj)]
           ELSE W

\* The coin's bob offset sin(bobTimer * bobFrequency * 2 * pi) * bobAmplitude
\* with bobFrequency = 2 per second, sampled at whole multiples of 1/8 s
\* (the time unit of the coin's bobTimer): the sine is 0, 1, 0, -1, ...
bobOffset(bobTimer) ==
  CASE bobTimer % 4 = 1 -> bobAmplitude
    [] bobTimer % 4 = 3 -> -bobAmplitude
    [] OTHER -> 0

\* The world-bounds test of Projectile::update
outOfWorld(bounds, worldBounds) ==
  \/ bounds.x + bounds.w < worldBounds.x
  \/ bounds.x > worldBounds.x + worldBounds.w
  \/ bounds.y + bounds.h < worldBounds.y
  \/ bounds.y > worldBounds.y + worldBounds.h

projUpdate_removesArrows(pr, dt, worldBounds) ==
  LET p1 == IF pr.projectileType = "COIN"
            THEN LET t == pr.bobTimer + dt
                 IN  [pr EXCEPT !.bobTimer = t,
                                !.dest = IF pr.hasSprite
                                         THEN [pr.bounds EXCEPT
                                                 !.y = pr.baseY + bobOffset(t)]
                                         ELSE @]
            ELSE [pr EXCEPT !.bounds.x = @ + pr.vel_x * dt,
                            !.bounds.y = @ + pr.vel_y * dt]
  IN  IF outOfWorld(p1.bounds, worldBounds) THEN markForRemoval(p1) ELSE p1

projUpdate_bobMovesBounds(pr, dt, worldBounds) ==
  LET p1 == IF pr.projectileType = "COIN"
            THEN LET t == pr.bobTimer + dt
                 IN  [pr EXCEPT !.bobTimer = t,
                                !.bounds.y = pr.baseY + bobOffset(t),
                                !.dest = IF pr.hasSprite
                                         THEN [pr.bounds EXCEPT
                                                 !.y = pr.baseY + bobOffset(t)]
                                         ELSE @]
            ELSE [pr EXCEPT !.bounds.x = @ + pr.vel_x * dt,
                            !.bounds.y = @ + pr.vel_y * dt]
  IN  IF outOfWorld(p1.bounds, worldBounds)
      THEN IF p1.projectileType = "ARROW"
           THEN resetToOriginalPosition(p1)
           ELSE markForRemoval(p1)
      ELSE p1

\* Projectile::update
projUpdate(pr, dt, worldBounds) ==
  LET p1 == IF pr.projectileType = "COIN"
            THEN LET t == pr.bobTimer + dt
                 IN  [pr EXCEPT !.bobTimer = t,
                                !.dest = IF pr.hasSprite
                                         THEN [pr.bounds EXCEPT
                                                 !.y = pr.baseY + bobOffset(t)]
                                         ELSE @]
            ELSE [pr EXCEPT !.bounds.x = @ + pr.vel_x * dt,
                            !.bounds.y = @ + pr.vel_y * dt]
  IN  IF outOfWorld(p1.bounds, worldBounds)
      THEN IF p1.projectileType = "ARROW"
           THEN resetToOriginalPosition(p1)
           ELSE markForRemoval(p1)
      ELSE p1

\* The virtual call self->onCollision(other, normalX, normalY, penetration);
\* the call is appended to the log.
onCollision(W, self, other, normalX, normalY, penetration) ==
  LET L == [W EXCEPT !.calls = Append(@, [to |-> self, other |-> other,
                                          normalX |-> normalX,
                                          normalY |-> normalY,
                                          penetration |-> penetration])]
  IN  CASE self = "player" ->
             [L EXCEPT !.player = playerOnCollision(@, normalX, normalY,
                                                    penetration)]
        [] self = "plat" ->
             IF L.plat.type = "TRAP" THEN trapOnCollision(L, other) ELSE L
        [] self = "dp" ->
             [L EXCEPT !.dp = dpOnCollision(@, getType(other), normalX,
                                            normalY, penetration)]
        [] self = "proj" -> projOnCollision(L, other)

\* ------------------------------------------------------------------------
\* RectPlayer movement
\* ------------------------------------------------------------------------
Directions == {"LEFT", "UP", "RIGHT", "DOWN"}

\* RectPlayer::getEffectiveSpeed
getEffectiveSpeed(p) ==
  IF p.isSlowed
  THEN (PLAYER_SPEED * SLOW_SPEED_MULTIPLIER_NUM) \div SLOW_MULTIPLIER_DEN
  ELSE PLAYER_SPEED

\* RectPlayer::getEffectiveJumpForce
getEffectiveJumpForce(p) ==
  IF p.isSlowed
  THEN (PLAYER_JUMP_FORCE * SLOW_JUMP_MULTIPLIER_NUM) \div SLOW_MULTIPLIER_DEN
  ELSE PLAYER_JUMP_FORCE

setCrouch_keepsVelocity(p, enable) == [p EXCEPT !.crouching = enable]

\* RectPlayer::setCrouch
setCrouch(p, enable) ==
  IF enable
  THEN [p EXCEPT !.crouching = TRUE, !.vel_x = 0, !.vel_y = 0]
  ELSE [p EXCEPT !.crouching = FALSE]

canDash_ignoringCooldown(p) == ~p.dashing

\* RectPlayer::canDash
canDash(p) == p.dashCooldownTimer <= 0 /\ ~p.dashing

\* RectPlayer::startDash
startDash(p, direction) ==
  IF ~canDash(p)
  THEN p
  ELSE [p EXCEPT !.dashing = TRUE, !.dashDirection = direction,
                 !.dashTimer = 0, !.isJumping = FALSE]

stopDash_noCooldown(p) ==
  [p EXCEPT !.dashing = FALSE, !.dashTimer = 0]

\* RectPlayer::stopDash
stopDash(p) ==
  [p EXCEPT !.dashing = FALSE, !.dashTimer = 0,
            !.dashCooldownTimer = PLAYER_DASH_COOLDOWN]

\* RectPlayer::updateDash in which the cooldown runs at twice the speed
updateDash_cooldownRunsDouble(p, dt) ==
  LET p1 == IF p.dashCooldownTimer > 0
            THEN [p EXCEPT !.dashCooldownTimer = @ - 2 * dt]
            ELSE p
  IN  IF p1.dashing
      THEN LET p2 == [p1 EXCEPT !.dashTimer = @ + dt]
           IN  IF p2.dashTimer >= PLAYER_DASH_DURATION THEN stopDash(p2)
               ELSE p2
      ELSE p1

\* RectPlayer::updateDash
updateDash(p, dt) ==
  LET p1 == IF p.dashCooldownTimer > 0
            THEN [p EXCEPT !.dashCooldownTimer = @ - dt]
            ELSE p
  IN  IF p1.dashing
      THEN LET p2 == [p1 EXCEPT !.dashTimer = @ + dt]
           IN  IF p2.dashTimer >= PLAYER_DASH_DURATION THEN stopDash(p2)
               ELSE p2
      ELSE p1

stateHandle_dashBeforeJump(p) ==
  [p EXCEPT !.state = IF p.crouching THEN "CROUCHING"
                      ELSE IF p.dashing THEN "MOVING"
                      ELSE IF p.isJumping THEN "JUMPING"
                      ELSE IF p.vel_x # 0 THEN "MOVING"
                      ELSE "IDLE"]

\* RectPlayer::stateHandle
stateHandle(p) ==
  [p EXCEPT !.state = IF p.crouching THEN "CROUCHING"
                      ELSE IF p.isJumping THEN "JUMPING"
                      ELSE IF p.dashing THEN "MOVING"
                      ELSE IF p.vel_x # 0 THEN "MOVING"
                      ELSE "IDLE"]

\* RectPlayer::handleMovement, the dash input
handleDashInput(p, dash) ==
  IF dash
  THEN IF canDash(p)
       THEN startDash(p, IF p.lastDirection > 0 THEN "RIGHT" ELSE "LEFT")
       ELSE p
  ELSE IF p.dashing THEN stopDash(p) ELSE p

\* RectPlayer::handleMovement, the horizontal velocity
handleHorizontal(p, moveLeft, moveRight) ==
  LET p0 == [p EXCEPT !.vel_x = 0]
      p1 == IF ~p0.dashing /\ moveLeft
            THEN [p0 EXCEPT !.vel_x = @ - getEffectiveSpeed(p0),
                            !.lastDirection = -1]
            ELSE p0
  IN  IF ~p1.dashing /\ moveRight
      THEN [p1 EXCEPT !.vel_x = @ + getEffectiveSpeed(p1),
                      !.lastDirection = 1]
      ELSE p1

handleVertical_gravityOnlyWhileHeld(p, dt, jump, fastFall) ==
  LET p0 == IF jump THEN [p EXCEPT !.vel_y = PLAYER_GRAVITY * dt] ELSE p
      p1 ==
        IF jump
        THEN IF p0.onGround
             THEN [setCrouch(setGrounded([p0 EXCEPT !.isJumping = TRUE],
                                         FALSE), FALSE)
                     EXCEPT !.vel_y = -getEffectiveJumpForce(p0) * dt,
                            !.jumpTimer = 0]
             ELSE IF p0.isJumping /\ p0.jumpTimer < PLAYER_JUMP_DURATION
                  THEN LET base ==
                             IF p0.jumpTimer < PLAYER_JUMP_DURATION \div 2
                             THEN getEffectiveJumpForce(p0)
                             ELSE PLAYER_JUMP_REDUCED_FORCE
                           jumpPower ==
                             IF p0.isSlowed
                             THEN (base * SLOW_JUMP_MULTIPLIER_NUM)
                                    \div SLOW_MULTIPLIER_DEN
                             ELSE base
                       IN  [p0 EXCEPT !.vel_y = -jumpPower * dt,
                                      !.jumpTimer = @ + dt]
                  ELSE p0
        ELSE resetJump(p0)
  IN  IF fastFall /\ ~p1.onGround
      THEN [p1 EXCEPT !.vel_y = @ + PLAYER_FAST_FALL_SPEED * dt]
      ELSE p1

handleVertical_airJump(p, dt, jump, fastFall) ==
  LET p0 == [p EXCEPT !.vel_y = PLAYER_GRAVITY * dt]
      p1 ==
        IF jump
        THEN IF p0.onGround \/ ~p0.isJumping
             THEN [setCrouch(setGrounded([p0 EXCEPT !.isJumping = TRUE],
                                         FALSE), FALSE)
                     EXCEPT !.vel_y = -getEffectiveJumpForce(p0) * dt,
                            !.jumpTimer = 0]
             ELSE IF p0.isJumping /\ p0.jumpTimer < PLAYER_JUMP_DURATION
                  THEN LET base ==
                             IF p0.jumpTimer < PLAYER_JUMP_DURATION \div 2
                             THEN getEffectiveJumpForce(p0)
                             ELSE PLAYER_JUMP_REDUCED_FORCE
                           jumpPower ==
                             IF p0.isSlowed
                             THEN (base * SLOW_JUMP_MULTIPLIER_NUM)
                                    \div SLOW_MULTIPLIER_DEN
                             ELSE base
                       IN  [p0 EXCEPT !.vel_y = -jumpPower * dt,
                                      !.jumpTimer = @ + dt]
                  ELSE p0
        ELSE resetJump(p0)
  IN  IF fastFall /\ ~p1.onGround
      THEN [p1 EXCEPT !.vel_y = @ + PLAYER_FAST_FALL_SPEED * dt]
      ELSE p1

\* RectPlayer::handleMovement, gravity, jump and fast fall
handleVertical(p, dt, jump, fastFall) ==
  LET p0 == [p EXCEPT !.vel_y = PLAYER_GRAVITY * dt]
      p1 ==
        IF jump
        THEN IF p0.onGround
             THEN [setCrouch(setGrounded([p0 EXCEPT !.isJumping = TRUE],
                                         FALSE), FALSE)
                     EXCEPT !.vel_y = -getEffectiveJumpForce(p0) * dt,
                            !.jumpTimer = 0]
             ELSE IF p0.isJumping /\ p0.jumpTimer < PLAYER_JUMP_DURATION
                  THEN LET base ==
                             IF p0.jumpTimer < PLAYER_JUMP_DURATION \div 2
                             THEN getEffectiveJumpForce(p0)
                             ELSE PLAYER_JUMP_REDUCED_FORCE
                           jumpPower ==
                             IF p0.isSlowed
                             THEN (base * SLOW_JUMP_MULTIPLIER_NUM)
                                    \div SLOW_MULTIPLIER_DEN
                             ELSE base
                       IN  [p0 EXCEPT !.vel_y = -jumpPower * dt,
                                      !.jumpTimer = @ + dt]
                  ELSE p0
        ELSE resetJump(p0)
  IN  IF fastFall /\ ~p1.onGround
      THEN [p1 EXCEPT !.vel_y = @ + PLAYER_FAST_FALL_SPEED * dt]
      ELSE p1

\* RectPlayer::handleMovement
handleMovement(p, dt, moveLeft, moveRight, jump, fastFall, dash, crouch) ==
  IF crouch /\ p.onGround
  THEN setCrouch(p, TRUE)
  ELSE handleVertical(
         handleHorizontal(handleDashInput(setCrouch(p, FALSE), dash),
                          moveLeft, moveRight),
         dt, jump, fastFall)

\* RectPlayer::update
update(p, dt) ==
  LET p1 == updateDash(p, dt)
  IN  IF p1.crouching
      THEN stateHandle(p1)
      ELSE LET p2 ==
                 IF p1.dashing
                 THEN [p1 EXCEPT
                         !.pos_x = @ + (IF p1.dashDirection = "RIGHT"
                                        THEN PLAYER_DASH_SPEED
                                        ELSE -PLAYER_DASH_SPEED) * dt,
                         !.pos_y = IF ~p1.onGround
                                   THEN @ + PLAYER_GRAVITY * dt ELSE @]
                 ELSE LET vy == IF p1.onGround /\ p1.vel_y > 0
                                THEN 0 ELSE p1.vel_y
                      IN  [p1 EXCEPT !.pos_x = @ + p1.vel_x * dt,
                                     !.vel_y = vy,
                                     !.pos_y = @ + vy]
           IN  stateHandle([p2 EXCEPT !.rect_x = p2.pos_x,
                                      !.rect_y = p2.pos_y])

\* ------------------------------------------------------------------------
\* CollisionSystem handlers (W -> W)
\* ------------------------------------------------------------------------
handlePlayerVsStatic_sameNormalToBoth(W, p, s) ==
  LET info == computeCollisionInfo(getCollisionBounds(W, p),
                                   getCollisionBounds(W, s))
      W1 == onCollision(W, p, s, info.normalX, info.normalY, info.penetration)
      W2 == onCollision(W1, s, p, info.normalX, info.normalY,
                        info.penetration)
      pos == getPos(W2, p)
  IN  setPos(W2, p, pos.x + info.normalX * info.penetration,
             pos.y + info.normalY * info.penetration)

handlePlayerVsStatic_pushInward(W, p, s) ==
  LET info == computeCollisionInfo(getCollisionBounds(W, p),
                                   getCollisionBounds(W, s))
      W1 == onCollision(W, p, s, info.normalX, info.normalY, info.penetration)
      W2 == onCollision(W1, s, p, -info.normalX, -info.normalY,
                        info.penetration)
      pos == getPos(W2, p)
  IN  setPos(W2, p, pos.x - info.normalX * info.penetration,
             pos.y - info.normalY * info.penetration)

handlePlayerVsStatic(W, p, s) ==
  LET info == computeCollisionInfo(getCollisionBounds(W, p),
                                   getCollisionBounds(W, s))
      W1 == onCollision(W, p, s, info.normalX, info.normalY, info.penetration)
      W2 == onCollision(W1, s, p, -info.normalX, -info.normalY,
                        info.penetration)
      pos == getPos(W2, p)
  IN  setPos(W2, p, pos.x + info.normalX * info.penetration,
             pos.y + info.normalY * info.penetration)

handlePlayerVsProjectile(W, p, pr) ==
  LET info == computeCollisionInfo(getCollisionBounds(W, p),
                                   getCollisionBounds(W, pr))
      W1 == onCollision(W, p, pr, info.normalX, info.normalY,
                        info.penetration)
  IN  onCollision(W1, pr, p, -info.normalX, -info.normalY, info.penetration)

handleProjectileVsStatic(W, pr, s) ==
  LET info == computeCollisionInfo(getCollisionBounds(W, pr),
                                   getCollisionBounds(W, s))
      W1 == onCollision(W, pr, s, info.normalX, info.normalY,
                        info.penetration)
      W2 == onCollision(W1, s, pr, -info.normalX, -info.normalY,
                        info.penetration)
      pos == getPos(W2, pr)
  IN  setPos(W2, pr, pos.x + info.normalX * info.penetration,
             pos.y + info.normalY * info.penetration)

\* CollisionSystem::handleCollision
handleCollision(W, x, y) ==
  LET typeA == getType(x)
      typeB == getType(y)
  IN  CASE typeA = "PLAYER" /\ typeB = "STATIC_OBJECT" ->
             handlePlayerVsStatic(W, x, y)
        [] typeA = "STATIC_OBJECT" /\ typeB = "PLAYER" ->
             handlePlayerVsStatic(W, y, x)
        [] typeA = "PLAYER" /\ typeB = "PROJECTILE" ->
             handlePlayerVsProjectile(W, x, y)
        [] typeA = "PROJECTILE" /\ typeB = "PLAYER" ->
             handlePlayerVsProjectile(W, y, x)
        [] typeA = "PROJECTILE" /\ typeB = "STATIC_OBJECT" ->
             handleProjectileVsStatic(W, x, y)
        [] typeA = "STATIC_OBJECT" /\ typeB = "PROJECTILE" ->
             handleProjectileVsStatic(W, y, x)
        [] OTHER -> W

\* A sweep that tests every candidate against the bounds the player had
\* when the sweep began
RECURSIVE resolveAgainst(_, _, _, _)
resolveAgainst(W, p, objects, boundsAtStart) ==
  IF objects = <<>>
  THEN W
  ELSE LET obj == Head(objects)
           W1 == IF checkAABB(boundsAtStart, getCollisionBounds(W, obj))
                 THEN handleCollision(W, p, obj)
                 ELSE W
       IN  resolveAgainst(W1, p, Tail(objects), boundsAtStart)

resolveCollisions_boundsAtStart(W, p, objects) ==
  resolveAgainst(W, p, objects, getCollisionBounds(W, p))

\* CollisionSystem::resolveCollisions: the candidates in list order, each
\* tested against the bounds the player has when its turn comes.
RECURSIVE resolveCollisions(_, _, _)
resolveCollisions(W, p, objects) ==
  IF objects = <<>>
  THEN W
  ELSE LET obj == Head(objects)
           W1 == IF checkAABB(getCollisionBounds(W, p),
                              getCollisionBounds(W, obj))
                 THEN handleCollision(W, p, obj)
                 ELSE W
       IN  resolveCollisions(W1, p, Tail(objects))

\* ------------------------------------------------------------------------
\* State of the objects
\* ------------------------------------------------------------------------
World ==
  [player |-> player, plat |-> plat, dp |-> dp, proj |-> proj,
   calls |-> <<>>]

\* RectPlayer constructor followed by init()
PlayerInit(x, y) ==
  [rect_x |-> x, rect_y |-> y, rect_w |-> PLAYER_WIDTH,
   rect_h |-> PLAYER_HEIGHT, pos_x |-> x, pos_y |-> y, state |-> "IDLE",
   vel_x |-> 0, vel_y |-> 0, onGround |-> FALSE, isJumping |-> FALSE,
   jumpTimer |-> 0, lastDirection |-> 1, crouching |-> FALSE,
   dashing |-> FALSE, dashTimer |-> 0, dashCooldownTimer |-> 0,
   dashDirection |-> "RIGHT", isSlowed |-> FALSE, dead |-> FALSE]

\* Platform / TrapPlatform constructor
PlatInit(type, bounds) ==
  [type |-> type, bounds |-> bounds,
   reducedBounds |-> trapReducedBounds(bounds)]

\* DisappearingPlatform constructor
DPInit(bounds) ==
  [state |-> "VISIBLE", triggered |-> FALSE, timer |-> 0, bounds |-> bounds]

\* Projectile constructor followed by setVelocity / setOriginalPosition and
\* setSprite with the destination rectangle at the bounds
ProjInit(type, bounds, vx, vy, ox, oy) ==
  [projectileType |-> type, bounds |-> bounds, vel_x |-> vx, vel_y |-> vy,
   shouldRemove |-> FALSE, originalX |-> ox, originalY |-> oy,
   baseY |-> IF type = "COIN" THEN bounds.y ELSE 0, bobTimer |-> 0,
   hasSprite |-> TRUE, dest |-> bounds]

NoOp == [name |-> "none"]

\* The scenario "trigger, then updates summing to exactly disappearDelay,
\* then updates summing to exactly reappearDelay, then one more update",
\* followed on the dt values alone.  stage is "none" before the first
\* trigger, "delay" after a trigger, "gone" once the updates since the
\* trigger sum to exactly disappearDelay, "back" once the updates since then
\* sum to exactly reappearDelay, "extra" after the next update, and "off"
\* when a sum steps over its delay.  count is the number of triggers, up to 2.
NoCycle == [stage |-> "none", sum |-> 0, count |-> 0]

CycleAfter(d0, d1, c) ==
  IF d0.state = "VISIBLE" /\ d1.state = "DISAPPEARING"
  THEN [stage |-> "delay", sum |-> 0, count |-> Min(c.count + 1, 2)]
  ELSE c

CycleTick(c, dt) ==
  CASE c.stage = "delay" ->
         IF c.sum + dt = DISAPPEAR_DELAY
         THEN [c EXCEPT !.stage = "gone", !.sum = 0]
         ELSE IF c.sum + dt > DISAPPEAR_DELAY
              THEN [c EXCEPT !.stage = "off", !.sum = 0]
              ELSE [c EXCEPT !.sum = @ + dt]
    [] c.stage = "gone" ->
         IF c.sum + dt = REAPPEAR_DELAY
         THEN [c EXCEPT !.stage = "back", !.sum = 0]
         ELSE IF c.sum + dt > REAPPEAR_DELAY
              THEN [c EXCEPT !.stage = "off", !.sum = 0]
              ELSE [c EXCEPT !.sum = @ + dt]
    [] c.stage = "back" -> [c EXCEPT !.stage = "extra"]
    [] OTHER -> c

GeomIdle ==
  /\ a = EmptyRect
  /\ b = EmptyRect
  /\ out = NoOut

\* An empty slot of a tile grid (a null shared_ptr<Platform>)
NullTile == [type |-> "null"]

\* Map constructor: no layers, a legacy grid of width * height empty slots
MapInit(width, height) ==
  [width |-> width, height |-> height,
   tileSizeW |-> DEFAULT_TILE_WIDTH, tileSizeH |-> DEFAULT_TILE_HEIGHT,
   layers |-> <<>>,
   tiles |-> [i \in 1..(width * height) |-> NullTile],
   projectiles |-> <<>>,
   disappearingPlatforms |-> <<>>,
   totalCoins |-> 0, coinsCollected |-> 0]

\* Game constructor: not paused, not won
GameInit == [isPaused |-> FALSE, hasWon |-> FALSE]

\* ------------------------------------------------------------------------
\* Layer: a dense grid of tile slots, row after row
\* ------------------------------------------------------------------------
\* C++ int division: the quotient is truncated toward zero
IntDiv(n, d) == IF n >= 0 THEN n \div d ELSE -((-n) \div d)

\* A Platform or TrapPlatform held by a grid; id tells the objects apart
Tile(id, type, bounds) == [id |-> id] @@ PlatInit(type, bounds)

\* Layer constructor
LayerInit(name, width, height, tileSizeW, tileSizeH) ==
  [name |-> name, collidable |-> TRUE, width |-> width, height |-> height,
   tileSizeW |-> tileSizeW, tileSizeH |-> tileSizeH,
   tiles |-> [i \in 1..(width * height) |-> NullTile]]

layerInBounds_inclusive(L, x, y) ==
  x >= 0 /\ x <= L.width /\ y >= 0 /\ y < L.height

\* Layer::inBounds
layerInBounds(L, x, y) == x >= 0 /\ x < L.width /\ y >= 0 /\ y < L.height

\* Layer::getIndex (counted from 0; the sequence tiles is indexed from 1)
getIndex(L, x, y) == y * L.width + x

\* Layer::setTile
layerSetTile(L, x, y, tile) ==
  IF ~layerInBounds(L, x, y)
  THEN L
  ELSE [L EXCEPT !.tiles[getIndex(L, x, y) + 1] = tile]

\* Layer::getTile
layerGetTile(L, x, y) ==
  IF ~layerInBounds(L, x, y)
  THEN NullTile
  ELSE L.tiles[getIndex(L, x, y) + 1]

\* Layer::removeTile
layerRemoveTile(L, x, y) ==
  IF ~layerInBounds(L, x, y)
  THEN L
  ELSE [L EXCEPT !.tiles[getIndex(L, x, y) + 1] = NullTile]

\* Layer::clearTiles
layerClearTiles(L) == [L EXCEPT !.tiles = [i \in DOMAIN @ |-> NullTile]]

\* Layer::getAllTiles
layerGetAllTiles(L) == SelectSeq(L.tiles, LAMBDA t : t # NullTile)

\* Layer::worldToTile
worldToTile(L, wx, wy) ==
  [tx |-> IntDiv(wx, L.tileSizeW), ty |-> IntDiv(wy, L.tileSizeH)]

layerCellsInRect_exclusiveEnd(L, rect) ==
  LET c0 == worldToTile(L, rect.x, rect.y)
      c1 == worldToTile(L, rect.x + rect.w, rect.y + rect.h)
      x0 == Max(0, c0.tx)
      y0 == Max(0, c0.ty)
      x1 == Min(L.width - 1, c1.tx)
      y1 == Min(L.height - 1, c1.ty)
      nx == Max(0, x1 - x0)
      ny == Max(0, y1 - y0)
  IN  [i \in 1..(nx * ny) |->
         [x |-> x0 + ((i - 1) % nx), y |-> y0 + ((i - 1) \div nx)]]

\* Layer::getTilesInRect, the cells its two loops visit, in order
layerCellsInRect(L, rect) ==
  LET c0 == worldToTile(L, rect.x, rect.y)
      c1 == worldToTile(L, rect.x + rect.w, rect.y + rect.h)
      x0 == Max(0, c0.tx)
      y0 == Max(0, c0.ty)
      x1 == Min(L.width - 1, c1.tx)
      y1 == Min(L.height - 1, c1.ty)
      nx == Max(0, x1 - x0 + 1)
      ny == Max(0, y1 - y0 + 1)
  IN  [i \in 1..(nx * ny) |->
         [x |-> x0 + ((i - 1) % nx), y |-> y0 + ((i - 1) \div nx)]]

layerGetTilesInRect_keepsEmptySlots(L, rect) ==
  LET cells == layerCellsInRect(L, rect)
  IN  [i \in DOMAIN cells |-> layerGetTile(L, cells[i].x, cells[i].y)]

\* Layer::getTilesInRect
layerGetTilesInRect(L, rect) ==
  LET cells == layerCellsInRect(L, rect)
      found == [i \in DOMAIN cells |->
                  layerGetTile(L, cells[i].x, cells[i].y)]
  IN  SelectSeq(found, LAMBDA t : t # NullTile)

\* ------------------------------------------------------------------------
\* Map: layers, the legacy grid, projectiles and disappearing platforms
\* ------------------------------------------------------------------------
\* Map::inBounds
mapInBounds(m, x, y) == x >= 0 /\ x < m.width /\ y >= 0 /\ y < m.height

\* Map::setTile (legacy grid)
mapSetTile(m, x, y, tile) ==
  IF ~mapInBounds(m, x, y)
  THEN m
  ELSE [m EXCEPT !.tiles[y * m.width + x + 1] = tile]

\* Map::getTile (legacy grid)
mapGetTile(m, x, y) ==
  IF ~mapInBounds(m, x, y) THEN NullTile ELSE m.tiles[y * m.width + x + 1]

\* Map::removeTile (legacy grid)
mapRemoveTile(m, x, y) ==
  IF ~mapInBounds(m, x, y)
  THEN m
  ELSE [m EXCEPT !.tiles[y * m.width + x + 1] = NullTile]

\* What the TMX file holds, as TMXParser reads it: load is "ok",
\* "file_missing" (XMLDocument::LoadFile fails) or "not_a_map" (the root
\* element is missing or is not <map>); every layer has its name, the
\* encoding attribute of its <data> element and its gids, row after row.
\* There is one tileset, first gid 1, whose texture loads or not.
TmxLayer(name, encoding, data) ==
  [name |-> name, encoding |-> encoding, data |-> data]

TmxFile(load, mapWidth, mapHeight, textureLoads, layers) ==
  [load |-> load, mapWidth |-> mapWidth, mapHeight |-> mapHeight,
   tileWidth |-> DEFAULT_TILE_WIDTH, tileHeight |-> DEFAULT_TILE_HEIGHT,
   textureLoads |-> textureLoads, layers |-> layers]

\* TMXParser::loadFile throws
loadFileThrows(tmx) == tmx.load # "ok"

\* TMXParser::getLayersInfo throws: some <data> is not csv
getLayersInfoThrows(tmx) ==
  \E i \in DOMAIN tmx.layers : tmx.layers[i].encoding # "csv"

\* Layer::loadFromTMXLayer for the layer at place j of the file
loadFromTMXLayer(L, j, tmxLayer, textureLoads) ==
  [L EXCEPT !.tiles =
     [k \in DOMAIN @ |->
        LET tx == (k - 1) % L.width
            ty == (k - 1) \div L.width
        IN  IF k <= Len(tmxLayer.data) /\ tmxLayer.data[k] # 0
               /\ textureLoads
            THEN Tile(<<j, k>>, "LAND",
                      Rect(tx * L.tileSizeW, ty * L.tileSizeH,
                           L.tileSizeW, L.tileSizeH))
            ELSE NullTile]]

\* Map::init, the coin made from a tile of the coins layer
coinFromTile(t) ==
  [id |-> t.id] @@ ProjInit("COIN", t.bounds, 0, 0, 0, 0)

\* Map::init, the disappearing platform made from a tile
disappearingFromTile(t) == [id |-> t.id] @@ DPInit(t.bounds)

\* Map::init, the arrow made from a tile of the arrows layer
arrowFromTile(m, t) ==
  LET arrowBounds == Rect(t.bounds.x + (t.bounds.w - ARROW_WIDTH) \div 2,
                          t.bounds.y + (t.bounds.h - ARROW_HEIGHT) \div 2,
                          ARROW_WIDTH, ARROW_HEIGHT)
      tileX == IntDiv(t.bounds.x, DEFAULT_TILE_WIDTH)
      tileY == IntDiv(t.bounds.y, DEFAULT_TILE_HEIGHT)
      velocityX == IF tileX < IntDiv(m.width, 2)
                   THEN ARROW_SPEED ELSE -ARROW_SPEED
      velocityY == IF tileY < IntDiv(m.height, 4)
                   THEN ARROW_SPEED \div 2
                   ELSE IF tileY > IntDiv(m.height * 3, 4)
                        THEN -(ARROW_SPEED \div 2)
                        ELSE 0
  IN  [id |-> t.id] @@ ProjInit("ARROW", arrowBounds, velocityX, velocityY,
                                arrowBounds.x, arrowBounds.y)

\* Map::init, the body of the loop over the layers of the file
addLayerFromTMX(m, j, tmxLayer, textureLoads) ==
  LET L0 == loadFromTMXLayer(
              LayerInit(tmxLayer.name, m.width, m.height, m.tileSizeW,
                        m.tileSizeH),
              j, tmxLayer, textureLoads)
      L1 == IF L0.name = BACK_GROUND THEN [L0 EXCEPT !.collidable = FALSE]
            ELSE L0
      found == layerGetAllTiles(L1)
  IN  IF L1.name = COINS_LAYER_NAME
      THEN [m EXCEPT !.projectiles =
              @ \o [i \in DOMAIN found |-> coinFromTile(found[i])]]
      ELSE LET m2 == IF L1.name = DISAPPEAR_LAYER_NAME
                     THEN [m EXCEPT !.disappearingPlatforms =
                             @ \o [i \in DOMAIN found |->
                                     disappearingFromTile(found[i])]]
                     ELSE m
               L2 == IF L1.name = DISAPPEAR_LAYER_NAME /\ found # <<>>
                     THEN layerClearTiles(L1)
                     ELSE L1
               L3 == IF L2.name = TRAPS_LAYER_NAME
                     THEN [L2 EXCEPT !.tiles =
                             [k \in DOMAIN @ |->
                                IF @[k] = NullTile THEN NullTile
                                ELSE Tile(@[k].id, "TRAP", @[k].bounds)]]
                     ELSE L2
               m3 == IF L3.name = ARROW_LAYER_NAME
                     THEN [m2 EXCEPT !.projectiles =
                             @ \o [i \in DOMAIN found |->
                                     arrowFromTile(m2, found[i])]]
                     ELSE m2
               L4 == IF L3.name = ARROW_LAYER_NAME
                     THEN [L3 EXCEPT !.collidable = FALSE]
                     ELSE L3
           IN  [m3 EXCEPT !.layers = Append(@, L4)]

RECURSIVE addLayersFromTMX(_, _, _, _)
addLayersFromTMX(m, j, tmxLayers, textureLoads) ==
  IF j > Len(tmxLayers)
  THEN m
  ELSE addLayersFromTMX(addLayerFromTMX(m, j, tmxLayers[j], textureLoads),
                        j + 1, tmxLayers, textureLoads)

\* Map::init: the map afterwards and whether an exception left the call
mapInit(m, tmx) ==
  IF loadFileThrows(tmx)
  THEN [map |-> m, threw |-> FALSE]
  ELSE IF getLayersInfoThrows(tmx)
       THEN [map |-> m, threw |-> TRUE]
       ELSE LET m1 == [m EXCEPT !.width = tmx.mapWidth,
                                !.height = tmx.mapHeight,
                                !.tileSizeW = tmx.tileWidth,
                                !.tileSizeH = tmx.tileHeight,
                                !.layers = <<>>]
                m2 == addLayersFromTMX(m1, 1, tmx.layers, tmx.textureLoads)
            IN  [map |-> [m2 EXCEPT !.tiles =
                            IF m2.layers = <<>>
                            THEN [i \in 1..(m2.width * m2.height)
                                    |-> NullTile]
                            ELSE m2.layers[1].tiles],
                 threw |-> FALSE]

\* Map::getLayer(name): the first layer with that name, as a sequence of
\* zero or one layers
getLayer(m, name) ==
  LET named == SelectSeq(m.layers, LAMBDA L : L.name = name)
  IN  IF named = <<>> THEN <<>> ELSE <<Head(named)>>

RECURSIVE mapLayerTilesInRect_allLayers(_, _)
mapLayerTilesInRect_allLayers(layers, rect) ==
  IF layers = <<>>
  THEN <<>>
  ELSE layerGetTilesInRect(Head(layers), rect)
         \o mapLayerTilesInRect_allLayers(Tail(layers), rect)

\* Map::getTilesInRect, the loop over the collidable layers
RECURSIVE mapLayerTilesInRect(_, _)
mapLayerTilesInRect(layers, rect) ==
  IF layers = <<>>
  THEN <<>>
  ELSE (IF Head(layers).collidable
        THEN layerGetTilesInRect(Head(layers), rect)
        ELSE <<>>)
         \o mapLayerTilesInRect(Tail(layers), rect)

\* Map::getTilesInRect that returns the platforms for as long as they are
\* drawn
mapGetTilesInRect_whileDrawn(m, rect) ==
  mapLayerTilesInRect(m.layers, rect)
    \o SelectSeq(m.disappearingPlatforms,
                 LAMBDA d :
                   /\ isVisible(d)
                   /\ LET platformBounds == d.bounds
                      IN  /\ platformBounds.x < rect.x + rect.w
                          /\ platformBounds.x + platformBounds.w > rect.x
                          /\ platformBounds.y < rect.y + rect.h
                          /\ platformBounds.y + platformBounds.h > rect.y)

\* Map::getTilesInRect
mapGetTilesInRect(m, rect) ==
  mapLayerTilesInRect(m.layers, rect)
    \o SelectSeq(m.disappearingPlatforms,
                 LAMBDA d :
                   /\ canCollide(d)
                   /\ LET platformBounds == dpGetCollisionBounds(d)
                      IN  /\ platformBounds.x < rect.x + rect.w
                          /\ platformBounds.x + platformBounds.w > rect.x
                          /\ platformBounds.y < rect.y + rect.h
                          /\ platformBounds.y + platformBounds.h > rect.y)

\* The world rectangle Map::updateProjectiles hands to every update
worldBounds(m) == Rect(0, 0, m.width * m.tileSizeW, m.height * m.tileSizeH)

updateProjectiles_resolvesAgainstTiles(m, dt) ==
  [m EXCEPT !.projectiles =
     [i \in DOMAIN @ |->
        LET pr == projUpdate(@[i], dt, worldBounds(m))
            tiles == mapLayerTilesInRect(m.layers, pr.bounds)
        IN  IF \E k \in DOMAIN tiles :
                 checkAABB(pr.bounds, platGetCollisionBounds(tiles[k]))
            THEN IF pr.projectileType = "ARROW"
                 THEN resetToOriginalPosition(pr)
                 ELSE markForRemoval(pr)
            ELSE pr]]

\* Map::updateProjectiles
updateProjectiles(m, dt) ==
  [m EXCEPT !.projectiles =
     [i \in DOMAIN @ |-> projUpdate(@[i], dt, worldBounds(m))]]

\* Map::removeDeadProjectiles
removeDeadProjectiles(m) ==
  [m EXCEPT !.projectiles = SelectSeq(@, LAMBDA pr : ~pr.shouldRemove)]

\* Map::updateDisappearingPlatforms
updateDisappearingPlatforms(m, dt) ==
  [m EXCEPT !.disappearingPlatforms =
     [i \in DOMAIN @ |-> dpUpdate(@[i], dt)]]

\* Map::isPlayerOnSlowLayer
isPlayerOnSlowLayer(m, playerBounds) ==
  LET slowLayer == getLayer(m, SLOW_LAYER_NAME)
  IN  IF slowLayer = <<>> \/ ~slowLayer[1].collidable
      THEN FALSE
      ELSE layerGetTilesInRect(slowLayer[1], playerBounds) # <<>>

\* Map::isPlayerOnTrapLayer
isPlayerOnTrapLayer(m, playerBounds) ==
  LET trapLayer == getLayer(m, TRAPS_LAYER_NAME)
  IN  IF trapLayer = <<>>
      THEN FALSE
      ELSE LET tilesInRect == layerGetTilesInRect(trapLayer[1], playerBounds)
           IN  \E i \in DOMAIN tilesInRect :
                 /\ tilesInRect[i].type = "TRAP"
                 /\ checkAABB(playerBounds,
                              platGetCollisionBounds(tilesInRect[i]))

\* Map::collectCoin (called at game.cpp 341: the coin counter goes up)
collectCoin(m) == [m EXCEPT !.coinsCollected = @ + 1]

\* Map::resetCoins (called at game.cpp 314 when the player dies)
resetCoins(m) == [m EXCEPT !.coinsCollected = 0]

\* Map::areAllCoinsCollected (called at game.cpp 348)
areAllCoinsCollected(m) ==
  m.totalCoins > 0 /\ m.coinsCollected >= m.totalCoins

\* RectPlayer::setSlowed (called at game.cpp 300)
setSlowed(p, slowed) == [p EXCEPT !.isSlowed = slowed]

\* ------------------------------------------------------------------------
\* Game: one frame of the simulation.  S is the record of what the frame
\* has reached so far: the player, the map, the game's flags, the callbacks
\* made (calls), and what the frame keeps of its own course (probed,
\* colliders, resolved, loop, atLoopStart, atLoopEnd).  Calling a member of
\* a null collider is undefined behaviour: a frame that comes to it stops
\* what it was doing and is marked crashed.
\* ------------------------------------------------------------------------
\* F applied to the value of v, v being computed once
WithValue(v, F(_)) == CHOOSE r \in { F(x) : x \in {v} } : TRUE

\* A collider returned by Map::getTilesInRect is a DisappearingPlatform
isDisappearing(c) == "timer" \in DOMAIN c

\* Collideable::getCollisionBounds of a collider returned by the map
colliderBounds(c) ==
  IF isDisappearing(c) THEN dpGetCollisionBounds(c)
  ELSE platGetCollisionBounds(c)

\* The objects resolveCollisions and the callbacks work on when the player
\* meets collider c or projectile pr; the slots not involved hold objects
\* out of reach
TickWorld(S, c, d, pr) ==
  [player |-> S.player, plat |-> c, dp |-> d, proj |-> pr, calls |-> S.calls]

IdlePlat == PlatInit("LAND", Rect(0, 0, 0, 0))

IdleDP == DPInit(Rect(0, 0, 0, 0))

IdleProj == ProjInit("COIN", Rect(0, 0, 0, 0), 0, 0, 0, 0)

\* Game::updatePlayerPos, the ground check below the player; probed keeps
\* the tiles the probe got from the map
groundCheck(S0) ==
  WithValue(S0, LAMBDA S :
    IF ~S.player.onGround
    THEN S
    ELSE LET playerBounds == playerGetCollisionBounds(S.player)
             groundCheckBounds ==
               Rect(playerBounds.x, playerBounds.y + playerBounds.h,
                    playerBounds.w, GROUND_CHECK_HEIGHT)
         IN  WithValue(mapGetTilesInRect(S.map, groundCheckBounds),
                       LAMBDA nearbyTiles :
               IF \E i \in DOMAIN nearbyTiles : nearbyTiles[i] = NullTile
               THEN [S EXCEPT !.probed = nearbyTiles, !.crashed = TRUE]
               ELSE IF \E i \in DOMAIN nearbyTiles :
                         checkAABB(groundCheckBounds,
                                   colliderBounds(nearbyTiles[i]))
                    THEN [S EXCEPT !.probed = nearbyTiles]
                    ELSE [S EXCEPT !.probed = nearbyTiles,
                                   !.player = setGrounded(@, FALSE)]))

\* CollisionSystem::resolveCollisions(player, colliders), one collider of
\* the list after the other; the callbacks reach the collider in the map
RECURSIVE resolveColliders(_, _)
resolveColliders(S0, colliders) ==
  WithValue(S0, LAMBDA S :
    IF colliders = <<>>
    THEN S
    ELSE IF Head(colliders) = NullTile
    THEN [S EXCEPT !.crashed = TRUE]
    ELSE WithValue(Head(colliders), LAMBDA c :
           WithValue(
             IF isDisappearing(c)
             THEN [T |-> TickWorld(S, IdlePlat, c, IdleProj), obj |-> "dp"]
             ELSE [T |-> TickWorld(S, c, IdleDP, IdleProj), obj |-> "plat"],
             LAMBDA with :
               WithValue(
                 resolveCollisions(with.T, "player", <<with.obj>>),
                 LAMBDA W :
                   resolveColliders(
                     [S EXCEPT
                        !.player = W.player,
                        !.calls = W.calls,
                        !.map.disappearingPlatforms =
                          [i \in DOMAIN @ |->
                             IF with.obj = "dp" /\ @[i].id = c.id
                             THEN W.dp ELSE @[i]]],
                     Tail(colliders))))))

\* Game::updatePlayerPos; colliders keeps the list handed to
\* resolveCollisions, resolved the callbacks it made, groundedAfterCheck
\* the grounded flag as the ground check leaves it
updatePlayerPos(S0, dt, keys) ==
  WithValue(S0, LAMBDA S :
    IF S.game.isPaused
    THEN S
    ELSE WithValue(
           groundCheck(
             [S EXCEPT !.player =
                handleMovement(@, dt, keys.moveLeft, keys.moveRight,
                               keys.jump,
                               keys.fastFall /\ ~S.player.onGround,
                               keys.dash,
                               keys.crouch /\ S.player.onGround)]),
           LAMBDA S2 :
             WithValue(
               mapGetTilesInRect(S2.map, playerGetCollisionBounds(S2.player)),
               LAMBDA colliders :
                 WithValue(
                   resolveColliders(
                     [S2 EXCEPT !.colliders = colliders,
                                !.groundedAfterCheck = S2.player.onGround],
                     colliders),
                   LAMBDA S3 :
                     [S3 EXCEPT !.resolved = S3.calls,
                                !.player = update(@, dt)]))))

\* The status effects of Game::run with a respawn that leaves the dead flag
statusEffects_keepsDeadFlag(S0) ==
  WithValue(S0, LAMBDA S :
    WithValue(
      setSlowed(S.player,
                isPlayerOnSlowLayer(S.map,
                                    playerGetCollisionBounds(S.player))),
      LAMBDA p1 :
        WithValue(
          IF isPlayerOnTrapLayer(S.map, playerGetCollisionBounds(p1))
          THEN setDead(p1, TRUE) ELSE p1,
          LAMBDA p2 :
            IF p2.dead
            THEN WithValue(
                   playerSetPos(p2, PLAYER_START_X, PLAYER_START_Y),
                   LAMBDA p3 :
                     [S EXCEPT
                        !.player = p3,
                        !.map = resetCoins(@),
                        !.deathStep = [found |-> p2, left |-> p3]])
            ELSE [S EXCEPT !.player = p2,
                           !.deathStep = [found |-> p2, left |-> p2]])))

\* Game::run, the layer status effects and the respawn; deathStep keeps the
\* player as the death handling finds and leaves it
statusEffects(S0) ==
  WithValue(S0, LAMBDA S :
    WithValue(
      setSlowed(S.player,
                isPlayerOnSlowLayer(S.map,
                                    playerGetCollisionBounds(S.player))),
      LAMBDA p1 :
        WithValue(
          IF isPlayerOnTrapLayer(S.map, playerGetCollisionBounds(p1))
          THEN setDead(p1, TRUE) ELSE p1,
          LAMBDA p2 :
            IF p2.dead
            THEN WithValue(
                   setDead(playerSetPos(p2, PLAYER_START_X, PLAYER_START_Y),
                           FALSE),
                   LAMBDA p3 :
                     [S EXCEPT
                        !.player = p3,
                        !.map = resetCoins(@),
                        !.deathStep = [found |-> p2, left |-> p3]])
            ELSE [S EXCEPT !.player = p2,
                           !.deathStep = [found |-> p2, left |-> p2]])))

\* Game::run, the body of the loop over the projectiles when the player
\* overlaps the projectile at place i
hitProjectile(S0, i) ==
  WithValue(S0, LAMBDA S :
    WithValue(
      computeCollisionInfo(playerGetCollisionBounds(S.player),
                           S.map.projectiles[i].bounds),
      LAMBDA info :
        WithValue(
          onCollision(TickWorld(S, IdlePlat, IdleDP, S.map.projectiles[i]),
                      "player", "proj", info.normalX, info.normalY,
                      info.penetration),
          LAMBDA W1 :
            WithValue(
              onCollision(W1, "proj", "player", -info.normalX,
                          -info.normalY, info.penetration),
              LAMBDA W2 :
                LET wasCoin == S.map.projectiles[i].projectileType = "COIN"
                    m1 == [S.map EXCEPT !.projectiles[i] = W2.proj]
                IN  [S EXCEPT !.player = W2.player,
                              !.calls = W2.calls,
                              !.map = IF wasCoin /\ W2.proj.shouldRemove
                                      THEN collectCoin(m1) ELSE m1]))))

\* The ids of the projectiles in the list, in order
projectileIds(m) == [k \in DOMAIN m.projectiles |-> m.projectiles[k].id]

RECURSIVE projectileLoop_erasesCollected(_, _)
projectileLoop_erasesCollected(S0, i) ==
  WithValue(S0, LAMBDA S :
    IF i > Len(S.map.projectiles)
    THEN S
    ELSE LET pr == S.map.projectiles[i]
             hit == checkAABB(playerGetCollisionBounds(S.player), pr.bounds)
             step == [at |-> i, id |-> pr.id, ids |-> projectileIds(S.map),
                      called |-> hit, playerBefore |-> S.player]
         IN  WithValue(IF hit THEN hitProjectile(S, i) ELSE S, LAMBDA S1 :
               projectileLoop_erasesCollected(
                 [S1 EXCEPT
                    !.loop = Append(@, step),
                    !.map.projectiles =
                      SelectSeq(@, LAMBDA q : ~(q.projectileType = "COIN"
                                                /\ q.shouldRemove))],
                 i + 1)))

\* Game::run, the loop over map->getProjectiles(), from place i on; loop
\* keeps, for every turn, the place, the projectile, the list and the player
\* as they are when the turn starts and whether the callbacks were delivered
RECURSIVE projectileLoop(_, _)
projectileLoop(S0, i) ==
  WithValue(S0, LAMBDA S :
    IF i > Len(S.map.projectiles)
    THEN S
    ELSE LET pr == S.map.projectiles[i]
             hit == checkAABB(playerGetCollisionBounds(S.player), pr.bounds)
             step == [at |-> i, id |-> pr.id, ids |-> projectileIds(S.map),
                      called |-> hit, playerBefore |-> S.player]
         IN  WithValue(IF hit THEN hitProjectile(S, i) ELSE S, LAMBDA S1 :
               projectileLoop([S1 EXCEPT !.loop = Append(@, step)], i + 1)))

\* Game::run, the win check
winCheck(S0) ==
  WithValue(S0, LAMBDA S :
    IF areAllCoinsCollected(S.map) /\ ~S.game.hasWon
    THEN [S EXCEPT !.game.hasWon = TRUE]
    ELSE S)

\* Game::run, the updates of one frame up to the projectile loop
frameUpdates(S0, dt, keys) ==
  WithValue(updatePlayerPos(S0, dt, keys), LAMBDA S1 :
    statusEffects(
      [S1 EXCEPT !.map = updateDisappearingPlatforms(
                           updateProjectiles(@, dt), dt)]))

\* Game::run, the collision dispatch of one frame: the updates and the
\* player-vs-projectile loop; atLoopStart and atLoopEnd keep the list of
\* projectiles as the loop finds and leaves it
frameDispatch(S0, dt, keys) ==
  WithValue(frameUpdates(S0, dt, keys), LAMBDA S1 :
    WithValue(
      projectileLoop([S1 EXCEPT !.atLoopStart = S1.map.projectiles], 1),
      LAMBDA S2 : [S2 EXCEPT !.atLoopEnd = S2.map.projectiles]))

\* Game::run, one frame while the game is neither paused nor won
frame(S0, dt, keys) ==
  WithValue(winCheck(frameDispatch(S0, dt, keys)), LAMBDA S1 :
    [S1 EXCEPT !.map = removeDeadProjectiles(@)])

\* Game::run, the updates of one turn of the main loop with only the pause
\* flag guarding them
run_updatesWhenWon(S0, dt, keys) ==
  WithValue(S0, LAMBDA S :
    IF ~S.game.isPaused THEN frame(S, dt, keys) ELSE S)

\* Game::run, the updates of one turn of the main loop: nothing is updated
\* while the game is paused or won
run(S0, dt, keys) ==
  WithValue(S0, LAMBDA S :
    IF ~S.game.isPaused /\ ~S.game.hasWon THEN frame(S, dt, keys) ELSE S)

\* Game::resetGame
resetGame(S0) ==
  WithValue(S0, LAMBDA S :
    [S EXCEPT !.game = [hasWon |-> FALSE, isPaused |-> FALSE],
              !.player = setDead(playerSetPos(@, PLAYER_START_X,
                                              PLAYER_START_Y), FALSE),
              !.map = resetCoins(@)])

\* No jump runs, an empty map that was never loaded, a game that has not
\* ticked.
NoRuns == [tick |-> 0]

GameIdle ==
  /\ jumpRuns = NoRuns
  /\ map = MapInit(0, 0)
  /\ game = GameInit

\* The next state is the world NW, reached by operation op.
Becomes(NW, op) ==
  /\ player' = NW.player
  /\ plat' = NW.plat
  /\ dp' = NW.dp
  /\ proj' = NW.proj
  /\ calls' = NW.calls
  /\ lastOp' = op
  /\ cyc' = CycleAfter(dp, NW.dp, cyc)
  /\ UNCHANGED geomVars
  /\ UNCHANGED gameVars

\* ------------------------------------------------------------------------
\* Collision dispatch over one player, one tile, one disappearing platform
\* and one projectile: the placement is drawn in Init and one entry point
\* of the CollisionSystem is applied to it.
\* ------------------------------------------------------------------------
MaxPos == 6

\* Movement states with flags and velocities they occur with
PlayerProfiles ==
  { [state |-> "IDLE", crouching |-> FALSE, isJumping |-> FALSE,
     onGround |-> FALSE, vel_x |-> 0, vel_y |-> PLAYER_GRAVITY],
    [state |-> "MOVING", crouching |-> FALSE, isJumping |-> FALSE,
     onGround |-> TRUE, vel_x |-> PLAYER_SPEED, vel_y |-> PLAYER_GRAVITY],
    [state |-> "JUMPING", crouching |-> FALSE, isJumping |-> TRUE,
     onGround |-> FALSE, vel_x |-> 0, vel_y |-> -PLAYER_JUMP_FORCE],
    [state |-> "CROUCHING", crouching |-> TRUE, isJumping |-> FALSE,
     onGround |-> TRUE, vel_x |-> 0, vel_y |-> 0] }

PlayerAt(x, y, prof, dir) ==
  [PlayerInit(x, y) EXCEPT !.state = prof.state,
                           !.crouching = prof.crouching,
                           !.isJumping = prof.isJumping,
                           !.onGround = prof.onGround,
                           !.vel_x = prof.vel_x * dir,
                           !.vel_y = prof.vel_y,
                           !.lastDirection = dir]

PlatBoxes == {Rect(0, 0, 4, 4), Rect(0, 0, 8, 4)}

DPBox == Rect(-2, 1, 4, 4)

ProjBox == Rect(3, 3, 2, 2)

ProjectileTypes == {"COIN", "ARROW", "BULLET"}

CollideInit ==
  /\ GeomIdle
  /\ GameIdle
  /\ \E x \in (-MaxPos)..MaxPos, y \in (-MaxPos)..MaxPos,
        prof \in PlayerProfiles, dir \in {-1, 1} :
       player = PlayerAt(x, y, prof, dir)
  /\ \E type \in {"LAND", "TRAP"}, box \in PlatBoxes :
       plat = PlatInit(type, box)
  /\ dp = DPInit(DPBox)
  /\ \E type \in ProjectileTypes :
       proj = ProjInit(type, ProjBox, -1, 0, -4, 3)
  /\ calls = <<>>
  /\ lastOp = NoOp
  /\ cyc = NoCycle

\* CollisionSystem::handleCollision(x, y), a public entry point
HandleCollisionCall ==
  \E x \in Objects, y \in Objects :
    /\ lastOp = NoOp
    /\ x # y
    /\ Becomes(handleCollision(World, x, y),
               [name |-> "handleCollision", first |-> x, second |-> y,
                boundsA |-> getCollisionBounds(World, x),
                boundsB |-> getCollisionBounds(World, y)])

CandidateLists ==
  { s \in UNION { [1..n -> Objects \ {"player"}] : n \in 1..3 } :
      \A i, j \in DOMAIN s : i # j => s[i] # s[j] }

\* CollisionSystem::resolveCollisions(player, objects)
ResolveCollisionsCall ==
  \E objects \in CandidateLists :
    /\ lastOp = NoOp
    /\ Becomes(resolveCollisions(World, "player", objects),
               [name |-> "resolveCollisions", objects |-> objects,
                boundsA |-> getCollisionBounds(World, "player"),
                before |-> World])

CollideNext == HandleCollisionCall \/ ResolveCollisionsCall

SpecCollide == CollideInit /\ [][CollideNext]_vars

\* ------------------------------------------------------------------------
\* The disappearing platform under update calls and collisions
\* ------------------------------------------------------------------------
MaxDt == 2

\* Player placements around the platform: landing on top, against the left
\* side, under the bottom edge, and away from it.
ScenePositions ==
  { [x |-> -2, y |-> -4], [x |-> -4, y |-> 1], [x |-> -2, y |-> 4],
    [x |-> 5, y |-> -6] }

DPSceneInit ==
  /\ GeomIdle
  /\ GameIdle
  /\ \E pos \in ScenePositions :
       player = [PlayerInit(pos.x, pos.y) EXCEPT !.vel_y = PLAYER_GRAVITY]
  /\ plat = PlatInit("LAND", Rect(0, 0, 4, 4))
  /\ dp = DPInit(DPBox)
  /\ proj = ProjInit("ARROW", ProjBox, -1, 0, -4, 3)
  /\ calls = <<>>
  /\ lastOp = NoOp
  /\ cyc = NoCycle

\* A frame time longer than the whole hidden part of the cycle
LongDt == DISAPPEAR_DELAY + REAPPEAR_DELAY + 1

\* Map::updateDisappearingPlatforms -> DisappearingPlatform::update(dt)
DPUpdateCall ==
  \E dt \in (0..MaxDt) \cup {LongDt} :
    /\ dp' = dpUpdate(dp, dt)
    /\ cyc' = CycleTick(cyc, dt)
    /\ calls' = <<>>
    /\ lastOp' = [name |-> "update", dpBefore |-> dp, dt |-> dt]
    /\ UNCHANGED <<player, plat, proj>>
    /\ UNCHANGED geomVars
    /\ UNCHANGED gameVars

\* DisappearingPlatform::onCollision called on the platform directly
DPOnCollisionCall ==
  \E other \in Objects \ {"dp"}, normalX \in {-1, 0, 1},
     normalY \in {-1, 0, 1} :
    Becomes(onCollision(World, "dp", other, normalX, normalY, 1),
            [name |-> "onCollision", dpBefore |-> dp])

\* CollisionSystem::resolveCollisions(player, {platform}) as in
\* Game::updatePlayerPos
DPResolveCall ==
  Becomes(resolveCollisions(World, "player", <<"dp">>),
          [name |-> "resolveCollisions", dpBefore |-> dp])

\* CollisionSystem::handleCollision on a pair the platform is part of
DPHandleCollisionCall ==
  \E other \in {"player", "proj"}, swap \in BOOLEAN :
    Becomes(IF swap THEN handleCollision(World, "dp", other)
                    ELSE handleCollision(World, other, "dp"),
            [name |-> "handleCollision", dpBefore |-> dp])

\* RectPlayer::setPos, e.g. the respawn of Game::run
PlacePlayer ==
  \E pos \in ScenePositions :
    Becomes([World EXCEPT !.player = playerSetPos(@, pos.x, pos.y)],
            [name |-> "setPos", dpBefore |-> dp])

DPNext ==
  \/ DPUpdateCall
  \/ DPOnCollisionCall
  \/ DPResolveCall
  \/ DPHandleCollisionCall
  \/ PlacePlayer

SpecDP == DPSceneInit /\ [][DPNext]_vars

\* ------------------------------------------------------------------------
\* The player under input, update, collision callbacks and respawn
\* ------------------------------------------------------------------------
MaxTravel == 2

\* No handleMovement is waiting for its update.
NoFrame == [name |-> "none", dash |-> FALSE, pendingDt |-> 0]

PlayerSceneInit ==
  /\ GeomIdle
  /\ GameIdle
  /\ player = PlayerInit(0, 0)
  /\ plat = PlatInit("LAND", Rect(0, 0, 4, 4))
  /\ dp = DPInit(DPBox)
  /\ proj = ProjInit("COIN", ProjBox, 0, 0, 0, 0)
  /\ calls = <<>>
  /\ lastOp = NoFrame
  /\ cyc = NoCycle

PlayerStep(p, op) ==
  /\ player' = p
  /\ lastOp' = op
  /\ calls' = <<>>
  /\ UNCHANGED <<plat, dp, proj, cyc>>
  /\ UNCHANGED geomVars
  /\ UNCHANGED gameVars

\* Game::updatePlayerPos, first part: RectPlayer::handleMovement with the
\* intents read from the keyboard
HandleMovementCall ==
  \E dt \in 1..MaxDt, moveLeft \in BOOLEAN, moveRight \in BOOLEAN,
     jump \in BOOLEAN, fastFall \in BOOLEAN, dash \in BOOLEAN,
     crouch \in BOOLEAN :
    /\ lastOp.pendingDt = 0
    /\ PlayerStep(handleMovement(player, dt, moveLeft, moveRight, jump,
                                 fastFall /\ ~player.onGround, dash,
                                 crouch /\ player.onGround),
                  [name |-> "handleMovement", dash |-> dash,
                   pendingDt |-> dt, jump |-> jump,
                   crouch |-> crouch /\ player.onGround])

\* Game::updatePlayerPos, last part: RectPlayer::update with the frame's dt;
\* the player stays within MaxTravel of the start
UpdateCall ==
  LET p == update(player, lastOp.pendingDt)
  IN  /\ lastOp.pendingDt > 0
      /\ Abs(p.pos_x) <= MaxTravel
      /\ Abs(p.pos_y) <= MaxTravel
      /\ PlayerStep(p, [name |-> "update", dash |-> FALSE, pendingDt |-> 0])

\* RectPlayer::startDash called directly
StartDashCall ==
  \E direction \in Directions :
    PlayerStep(startDash(player, direction),
               [name |-> "startDash", dash |-> TRUE,
                pendingDt |-> lastOp.pendingDt])

\* RectPlayer::onCollision as delivered by the resolver for a tile, between
\* handleMovement and update
PlayerOnCollisionCall ==
  \E n \in {<<0, -1>>, <<0, 1>>, <<-1, 0>>, <<1, 0>>} :
    /\ lastOp.pendingDt > 0
    /\ PlayerStep(playerOnCollision(player, n[1], n[2], 1),
                  [name |-> "onCollision", dash |-> FALSE,
                   pendingDt |-> lastOp.pendingDt])

\* RectPlayer::setPos to the start position (Game::run on death)
RespawnCall ==
  /\ lastOp.pendingDt = 0
  /\ PlayerStep(playerSetPos(player, 0, 0),
                [name |-> "setPos", dash |-> FALSE, pendingDt |-> 0])

PlayerNext ==
  \/ HandleMovementCall
  \/ UpdateCall
  \/ StartDashCall
  \/ PlayerOnCollisionCall
  \/ RespawnCall

SpecPlayer == PlayerSceneInit /\ [][PlayerNext]_vars

\* ------------------------------------------------------------------------
\* Specification of the pure functions: the inputs are drawn in Init, the
\* actions apply the functions.
\* ------------------------------------------------------------------------
WorldIdle ==
  /\ player = PlayerInit(0, 0)
  /\ plat = PlatInit("LAND", Rect(0, 0, 4, 4))
  /\ dp = DPInit(DPBox)
  /\ proj = ProjInit("COIN", ProjBox, 0, 0, 0, 0)
  /\ calls = <<>>
  /\ lastOp = NoOp
  /\ cyc = NoCycle

GeomInit ==
  /\ a \in Boxes
  /\ b \in Boxes
  /\ out = NoOut
  /\ WorldIdle
  /\ GameIdle

CallCheckAABB ==
  /\ out.op # "checkAABB"
  /\ out' = [op |-> "checkAABB", hit |-> checkAABB(a, b)]
  /\ UNCHANGED <<a, b>>
  /\ UNCHANGED worldVars
  /\ UNCHANGED gameVars

CallComputeCollisionInfo ==
  /\ out.op # "computeCollisionInfo"
  /\ out' = [op |-> "computeCollisionInfo", info |-> computeCollisionInfo(a, b)]
  /\ UNCHANGED <<a, b>>
  /\ UNCHANGED worldVars
  /\ UNCHANGED gameVars

GeomNext == CallCheckAABB \/ CallComputeCollisionInfo

SpecGeom == GeomInit /\ [][GeomNext]_vars

\* ------------------------------------------------------------------------
\* Two runs of the player from the same grounded start, on the same dt and
\* the same intents except jump: the early run holds jump during its first
\* k1 ticks, the late run during its first k2 >= k1 ticks.  peakEarly and
\* peakLate are the smallest pos_y (the greatest height, y grows downward)
\* each run has reached so far, the start included.  The horizontal intent
\* is none or right (left mirrors right and does not touch pos_y).
\* ------------------------------------------------------------------------
MaxHold == 3
MaxTicks == 4

\* One tick of the player with no tile in reach: handleMovement with the
\* intents as Game::updatePlayerPos gates them, then update
PlayerFrame(p, dt, moveLeft, moveRight, jump, fastFall, dash, crouch) ==
  update(handleMovement(p, dt, moveLeft, moveRight, jump,
                        fastFall /\ ~p.onGround, dash,
                        crouch /\ p.onGround),
         dt)

JumpInit ==
  /\ GeomIdle
  /\ WorldIdle
  /\ map = MapInit(0, 0)
  /\ game = GameInit
  /\ \E k1 \in 0..MaxHold, k2 \in 0..MaxHold, dt \in 1..MaxDt,
        slowed \in BOOLEAN :
       LET start == [setGrounded(PlayerInit(0, 0), TRUE)
                       EXCEPT !.isSlowed = slowed]
       IN  /\ k1 <= k2
           /\ jumpRuns = [tick |-> 0, k1 |-> k1, k2 |-> k2, dt |-> dt,
                          early |-> start, late |-> start,
                          peakEarly |-> start.pos_y,
                          peakLate |-> start.pos_y]

JumpTick ==
  \E move \in {"none", "right"}, fastFall \in BOOLEAN,
     dash \in BOOLEAN, crouch \in BOOLEAN :
    LET r == jumpRuns
        e == PlayerFrame(r.early, r.dt, move = "left", move = "right",
                         r.tick < r.k1, fastFall, dash, crouch)
        l == PlayerFrame(r.late, r.dt, move = "left", move = "right",
                         r.tick < r.k2, fastFall, dash, crouch)
    IN  /\ r.tick < MaxTicks
        /\ jumpRuns' = [r EXCEPT !.tick = @ + 1,
                                 !.early = e, !.late = l,
                                 !.peakEarly = Min(@, e.pos_y),
                                 !.peakLate = Min(@, l.pos_y)]
        /\ UNCHANGED <<map, game>>
        /\ UNCHANGED geomVars
        /\ UNCHANGED worldVars

JumpNext == JumpTick

SpecJump == JumpInit /\ [][JumpNext]_vars

\* ------------------------------------------------------------------------
\* One projectile of a two by two tile world under Map::updateProjectiles.
\* lastOp keeps the projectile as created, the projectile before the last
\* update, that update's dt and the number of updates so far.
\* ------------------------------------------------------------------------
MaxUpdates == 4

ProjStarts == {0, 3, 6}

ProjSceneInit ==
  /\ GeomIdle
  /\ player = PlayerInit(0, 0)
  /\ plat = PlatInit("LAND", Rect(0, 0, 4, 4))
  /\ dp = DPInit(DPBox)
  /\ calls = <<>>
  /\ cyc = NoCycle
  /\ jumpRuns = NoRuns
  /\ map = MapInit(2, 2)
  /\ game = GameInit
  /\ \E type \in ProjectileTypes, x \in ProjStarts, y \in ProjStarts,
        vx \in {-ARROW_SPEED, ARROW_SPEED},
        vy \in {-(ARROW_SPEED \div 2), 0, ARROW_SPEED \div 2},
        hasSprite \in BOOLEAN :
       /\ proj = IF type = "COIN"
                 THEN [ProjInit(type, Rect(x, y, 2, 2), 0, 0, 0, 0)
                         EXCEPT !.hasSprite = hasSprite]
                 ELSE ProjInit(type, Rect(x, y, 2, 1), vx, vy, x, y)
       /\ lastOp = [name |-> "created", created |-> proj, before |-> proj,
                    dt |-> 0, count |-> 0]

\* Map::updateProjectiles for the one projectile
ProjUpdateCall ==
  \E dt \in 1..MaxDt :
    /\ lastOp.count < MaxUpdates
    /\ proj' = projUpdate(proj, dt, worldBounds(map))
    /\ lastOp' = [lastOp EXCEPT !.name = "update", !.before = proj,
                                !.dt = dt, !.count = @ + 1]
    /\ UNCHANGED <<player, plat, dp, calls, cyc>>
    /\ UNCHANGED geomVars
    /\ UNCHANGED gameVars

ProjNext == ProjUpdateCall

SpecProj == ProjSceneInit /\ [][ProjNext]_vars

\* ------------------------------------------------------------------------
\* The tile map: Game::init constructs the Map and calls Map::init on a TMX
\* file; afterwards one accessor of Map or of one of its layers is called.
\* An exception that leaves Map::init is caught nowhere (main calls
\* Game::run without a handler), so no call follows it.
\* ------------------------------------------------------------------------
MapW == 2
MapH == 2
MaxQuery == 5

\* The gids of a layer: every cell filled, only the first, every other one
TmxData == { [k \in 1..(MapW * MapH) |-> 1],
             [k \in 1..(MapW * MapH) |-> k % 2] }

LayerNames == {BACK_GROUND, "ground", COINS_LAYER_NAME, DISAPPEAR_LAYER_NAME,
               TRAPS_LAYER_NAME, ARROW_LAYER_NAME}

FullData == [k \in 1..(MapW * MapH) |-> 1]

\* Files that load, files that fail to load, files with a layer whose data
\* is not csv
TmxFiles ==
  { TmxFile("ok", MapW, MapH, textureLoads,
            <<TmxLayer(n1, "csv", FullData), TmxLayer(n2, "csv", d2)>>) :
      textureLoads \in BOOLEAN,
      n1 \in {BACK_GROUND, "ground"}, n2 \in LayerNames,
      d2 \in TmxData }
  \cup
  { TmxFile(load, MapW, MapH, TRUE,
            <<TmxLayer("ground", "csv", FullData)>>) :
      load \in {"file_missing", "not_a_map"} }
  \cup
  { TmxFile("ok", MapW, MapH, TRUE,
            <<TmxLayer("ground", "csv", FullData),
              TmxLayer(n2, "base64", FullData)>>) :
      n2 \in LayerNames }

\* Query rectangles: inside the grid, across each edge, and wholly outside
\* it on every side, the strip within one tile of zero included.
QueryCoords == {-6, -3, -1, 0, 2, 4,
                MapW * DEFAULT_TILE_WIDTH - 1, MapW * DEFAULT_TILE_WIDTH,
                MapW * DEFAULT_TILE_WIDTH + 1}

QueryRows == {-6, -3, 0, 4, MapH * DEFAULT_TILE_HEIGHT + 1}

QueryRects ==
  { Rect(x, y, w, h) : x \in QueryCoords, y \in QueryRows,
                       w \in {0, 1, MaxQuery}, h \in {1, MaxQuery} }

\* Tile coordinates handed to the accessors: one beyond the grid each way
TileCoords == (-1)..Max(MapW, MapH)

\* The tile array index an accessor uses, if it uses one
indexUsed(inside, index) == IF inside THEN <<index>> ELSE <<>>

MapSceneInit ==
  /\ GeomIdle
  /\ player = PlayerInit(0, 0)
  /\ plat = PlatInit("LAND", Rect(0, 0, 4, 4))
  /\ dp = DPInit(DPBox)
  /\ proj = ProjInit("COIN", ProjBox, 0, 0, 0, 0)
  /\ calls = <<>>
  /\ cyc = NoCycle
  /\ jumpRuns = NoRuns
  /\ game = GameInit
  /\ map = MapInit(MapW, MapH)
  /\ lastOp = [name |-> "constructed", threw |-> FALSE]

MapStep(m, op) ==
  /\ map' = m
  /\ lastOp' = op
  /\ UNCHANGED <<player, plat, dp, proj, calls, cyc, jumpRuns, game>>
  /\ UNCHANGED geomVars

\* Game::init: map->init(renderer)
MapInitCall ==
  \E tmx \in TmxFiles :
    /\ lastOp.name = "constructed"
    /\ LET r == mapInit(map, tmx)
       IN  MapStep(r.map, [name |-> "init", tmx |-> tmx, before |-> map,
                           threw |-> r.threw])

\* Map::getTilesInRect
MapGetTilesInRectCall ==
  \E rect \in QueryRects :
    /\ lastOp.name = "init" /\ ~lastOp.threw
    /\ MapStep(map, [name |-> "Map::getTilesInRect", rect |-> rect,
                     result |-> mapGetTilesInRect(map, rect),
                     threw |-> FALSE])

\* Layer::getTilesInRect on the layer at place j
LayerGetTilesInRectCall ==
  \E j \in DOMAIN map.layers, rect \in QueryRects :
    /\ lastOp.name = "init" /\ ~lastOp.threw
    /\ MapStep(map, [name |-> "Layer::getTilesInRect", layer |-> j,
                     rect |-> rect,
                     cells |-> layerCellsInRect(map.layers[j], rect),
                     result |-> layerGetTilesInRect(map.layers[j], rect),
                     threw |-> FALSE])

\* Layer::setTile, Layer::removeTile, Layer::getTile on the layer at place j
LayerAccessCall ==
  \E j \in DOMAIN map.layers, x \in TileCoords, y \in TileCoords,
     name \in {"setTile", "removeTile", "getTile"} :
    /\ lastOp.name = "init" /\ ~lastOp.threw
    /\ LET L == map.layers[j]
           tile == Tile(<<j, 0>>, "LAND", Rect(0, 0, L.tileSizeW, L.tileSizeH))
           NL == CASE name = "setTile" -> layerSetTile(L, x, y, tile)
                   [] name = "removeTile" -> layerRemoveTile(L, x, y)
                   [] OTHER -> L
       IN  MapStep([map EXCEPT !.layers[j] = NL],
                   [name |-> name, on |-> "Layer", layer |-> j,
                    x |-> x, y |-> y,
                    gridBefore |-> L.tiles, gridAfter |-> NL.tiles,
                    result |-> IF name = "getTile"
                               THEN layerGetTile(L, x, y) ELSE NullTile,
                    used |-> indexUsed(layerInBounds(L, x, y),
                                       getIndex(L, x, y)),
                    size |-> Len(L.tiles),
                    threw |-> FALSE])

\* Map::setTile, Map::removeTile, Map::getTile on the legacy grid
MapAccessCall ==
  \E x \in TileCoords, y \in TileCoords,
     name \in {"setTile", "removeTile", "getTile"} :
    /\ lastOp.name = "init" /\ ~lastOp.threw
    /\ LET tile == Tile(<<0, 0>>, "LAND",
                        Rect(0, 0, map.tileSizeW, map.tileSizeH))
           NM == CASE name = "setTile" -> mapSetTile(map, x, y, tile)
                   [] name = "removeTile" -> mapRemoveTile(map, x, y)
                   [] OTHER -> map
       IN  MapStep(NM,
                   [name |-> name, on |-> "Map", layer |-> 0,
                    x |-> x, y |-> y,
                    gridBefore |-> map.tiles, gridAfter |-> NM.tiles,
                    result |-> IF name = "getTile"
                               THEN mapGetTile(map, x, y) ELSE NullTile,
                    used |-> indexUsed(mapInBounds(map, x, y),
                                       y * map.width + x),
                    size |-> Len(map.tiles),
                    threw |-> FALSE])

MapNext ==
  \/ MapInitCall
  \/ MapGetTilesInRectCall
  \/ LayerGetTilesInRectCall
  \/ LayerAccessCall
  \/ MapAccessCall

SpecMap == MapSceneInit /\ [][MapNext]_vars

\* ------------------------------------------------------------------------
\* The game: Game::init has built the player at the start position and has
\* loaded a level; every step is one frame of Game::run, or the pause key
\* seen by handleEvents.
\* ------------------------------------------------------------------------
LevelW == 3
LevelH == 3
MaxFrames == 3

\* The ground: the third row of tiles, whole or without its first cell
GroundData ==
  { [k \in 1..(LevelW * LevelH) |->
       IF (k - 1) \div LevelW = 2 THEN 1 ELSE 0],
    [k \in 1..(LevelW * LevelH) |->
       IF (k - 1) \div LevelW = 2 /\ (k - 1) % LevelW > 0 THEN 1 ELSE 0] }

\* The second layer: the first three cells of the first column, where the
\* player starts and falls
ColumnData ==
  [k \in 1..(LevelW * LevelH) |->
     IF (k - 1) % LevelW = 0 /\ (k - 1) \div LevelW <= 2 THEN 1 ELSE 0]

\* A single cell under the feet of the player at the start position
FootholdData ==
  [k \in 1..(LevelW * LevelH) |->
     IF (k - 1) % LevelW = 0 /\ (k - 1) \div LevelW = 1 THEN 1 ELSE 0]

Levels ==
  { TmxFile("ok", LevelW, LevelH, TRUE,
            <<TmxLayer("ground", "csv", g), TmxLayer(n, "csv", ColumnData)>>) :
      g \in GroundData,
      n \in {BACK_GROUND, COINS_LAYER_NAME, DISAPPEAR_LAYER_NAME,
              TRAPS_LAYER_NAME, ARROW_LAYER_NAME, SLOW_LAYER_NAME} }
  \cup
  { TmxFile("ok", LevelW, LevelH, TRUE,
            <<TmxLayer("ground", "csv", g),
              TmxLayer(DISAPPEAR_LAYER_NAME, "csv", FootholdData)>>) :
      g \in GroundData }

\* The keys held during a frame
Keys(moveRight, jump, dash, crouch) ==
  [moveLeft |-> FALSE, moveRight |-> moveRight, jump |-> jump,
   fastFall |-> FALSE, dash |-> dash, crouch |-> crouch]

KeySets == { Keys(FALSE, FALSE, FALSE, FALSE), Keys(TRUE, FALSE, FALSE, FALSE),
             Keys(FALSE, TRUE, FALSE, FALSE), Keys(FALSE, FALSE, FALSE, TRUE) }

\* The coins Map::init made (Map::totalCoins)
countCoins(m) ==
  Len(SelectSeq(m.projectiles, LAMBDA pr : pr.projectileType = "COIN"))

NoFrameYet ==
  [name |-> "init", count |-> 0, dt |-> 0,
   keys |-> Keys(FALSE, FALSE, FALSE, FALSE),
   playerBefore |-> PlayerInit(PLAYER_START_X, PLAYER_START_Y),
   mapBefore |-> MapInit(0, 0),
   probed |-> <<>>, colliders |-> <<>>, crashed |-> FALSE,
   groundedAfterCheck |-> FALSE,
   resolved |-> <<>>,
   deathStep |-> [found |-> PlayerInit(PLAYER_START_X, PLAYER_START_Y),
                  left |-> PlayerInit(PLAYER_START_X, PLAYER_START_Y)],
   atLoopStart |-> <<>>, loop |-> <<>>,
   atLoopEnd |-> <<>>]

GameSceneInit ==
  /\ GeomIdle
  /\ plat = PlatInit("LAND", Rect(0, 0, 4, 4))
  /\ dp = DPInit(DPBox)
  /\ proj = ProjInit("COIN", ProjBox, 0, 0, 0, 0)
  /\ cyc = NoCycle
  /\ jumpRuns = NoRuns
  /\ calls = <<>>
  /\ player = PlayerInit(PLAYER_START_X, PLAYER_START_Y)
  /\ game = GameInit
  /\ \E tmx \in Levels :
       LET m == mapInit(MapInit(LevelW, LevelH), tmx).map
       IN  map = [m EXCEPT !.totalCoins = countCoins(m)]
  /\ lastOp = NoFrameYet

\* One frame of Game::run with the game neither paused nor won
Frame ==
  \E dt \in 1..MaxDt, keys \in KeySets :
    \E F \in { frame([player |-> player, map |-> map, game |-> game,
                      calls |-> <<>>, loop |-> <<>>, resolved |-> <<>>,
                      probed |-> <<>>, colliders |-> <<>>,
                      crashed |-> FALSE,
                      groundedAfterCheck |-> player.onGround,
                      deathStep |-> [found |-> player, left |-> player],
                      atLoopStart |-> <<>>, atLoopEnd |-> <<>>],
                     dt, keys) } :
      /\ lastOp.count < MaxFrames
      /\ ~game.isPaused /\ ~game.hasWon
      /\ player' = F.player
      /\ map' = F.map
      /\ game' = F.game
      /\ calls' = F.calls
      /\ lastOp' = [name |-> "frame", count |-> lastOp.count + 1,
                    dt |-> dt, keys |-> keys, playerBefore |-> player,
                    mapBefore |-> map,
                    probed |-> F.probed,
                    colliders |-> F.colliders,
                    crashed |-> F.crashed,
                    groundedAfterCheck |-> F.groundedAfterCheck,
                    resolved |-> F.resolved,
                    deathStep |-> F.deathStep,
                    atLoopStart |-> F.atLoopStart,
                    loop |-> F.loop,
                    atLoopEnd |-> F.atLoopEnd]
      /\ UNCHANGED <<plat, dp, proj, cyc, jumpRuns>>
      /\ UNCHANGED geomVars

\* Game::handleEvents: the pause key toggles isPaused unless the game is won
TogglePause ==
  /\ ~game.hasWon
  /\ game' = [game EXCEPT !.isPaused = ~@]
  /\ lastOp' = [lastOp EXCEPT !.name = "pause"]
  /\ UNCHANGED <<player, map, calls>>
  /\ UNCHANGED <<plat, dp, proj, cyc, jumpRuns>>
  /\ UNCHANGED geomVars

\* One turn of the main loop of Game::run with the game paused or won
IdleFrame ==
  /\ game.isPaused \/ game.hasWon
  /\ \E dt \in 1..MaxDt, keys \in KeySets :
       \E F \in { run([player |-> player, map |-> map, game |-> game,
                       calls |-> calls, loop |-> <<>>, resolved |-> <<>>,
                       probed |-> <<>>, colliders |-> <<>>,
                       crashed |-> FALSE,
                       groundedAfterCheck |-> player.onGround,
                       deathStep |-> [found |-> player, left |-> player],
                       atLoopStart |-> <<>>, atLoopEnd |-> <<>>],
                      dt, keys) } :
         /\ player' = F.player
         /\ map' = F.map
         /\ game' = F.game
         /\ calls' = F.calls
  /\ lastOp' = [lastOp EXCEPT !.name = "idleFrame"]
  /\ UNCHANGED <<plat, dp, proj, cyc, jumpRuns>>
  /\ UNCHANGED geomVars

\* Game::handleEvents: the restart key resets the game once it is won
PressRestart ==
  /\ game.hasWon
  /\ \E R \in { resetGame([player |-> player, map |-> map,
                            game |-> game]) } :
       /\ player' = R.player
       /\ map' = R.map
       /\ game' = R.game
  /\ lastOp' = [lastOp EXCEPT !.name = "resetGame"]
  /\ UNCHANGED calls
  /\ UNCHANGED <<plat, dp, proj, cyc, jumpRuns>>
  /\ UNCHANGED geomVars

GameNext ==
  \/ Frame
  \/ TogglePause
  \/ IdleFrame
  \/ PressRestart

SpecGame == GameSceneInit /\ [][GameNext]_vars

\* ------------------------------------------------------------------------
\* One collision callback delivered to one object: the objects are drawn in
\* Init, the action is the virtual call Collideable::onCollision with any
\* other object, axis normal and penetration.
\* ------------------------------------------------------------------------
MaxPenetration == 2

\* The player in every movement state, dashing or not, dead or not
CallbackPlayers ==
  { [PlayerAt(0, 0, prof, dir) EXCEPT
       !.dashing = dashing,
       !.dashTimer = IF dashing THEN 1 ELSE 0,
       !.dashCooldownTimer = IF dashing THEN 0 ELSE 1,
       !.jumpTimer = IF prof.isJumping THEN 1 ELSE 0,
       !.dead = dead] :
      prof \in PlayerProfiles, dir \in {-1, 1}, dashing \in BOOLEAN,
      dead \in BOOLEAN }

CallbackInit ==
  /\ GeomIdle
  /\ GameIdle
  /\ player \in CallbackPlayers
  /\ \E type \in {"LAND", "TRAP"} : plat = PlatInit(type, Rect(0, 0, 4, 4))
  /\ \E hidden \in BOOLEAN :
       dp = IF hidden
            THEN [DPInit(DPBox) EXCEPT !.state = "DISAPPEARED",
                                       !.triggered = TRUE]
            ELSE DPInit(DPBox)
  /\ \E type \in ProjectileTypes :
       proj = ProjInit(type, ProjBox, -1, 0, -4, 3)
  /\ calls = <<>>
  /\ lastOp = NoOp
  /\ cyc = NoCycle

\* self->onCollision(other, normalX, normalY, penetration)
OnCollisionCall ==
  \E self \in Objects, other \in Objects, normalX \in {-1, 0, 1},
     normalY \in {-1, 0, 1}, penetration \in {0, MaxPenetration} :
    /\ lastOp = NoOp
    /\ self # other
    /\ Becomes(onCollision(World, self, other, normalX, normalY, penetration),
               [name |-> "onCollision", self |-> self, other |-> other,
                normalX |-> normalX, normalY |-> normalY,
                penetration |-> penetration, before |-> World])

CallbackNext == OnCollisionCall

SpecCallback == CallbackInit /\ [][CallbackNext]_vars

\* ------------------------------------------------------------------------
\* Geometry used to state the claims (independent of the code's formulas)
\* ------------------------------------------------------------------------
Left(p) == p.x

Right(p) == p.x + p.w

Top(p) == p.y

Bottom(p) == p.y + p.h

\* Length of the common part of the two x (y) extents; negative when apart.
OverlapX(p, q) == Min(Right(p), Right(q)) - Max(Left(p), Left(q))

OverlapY(p, q) == Min(Bottom(p), Bottom(q)) - Max(Top(p), Top(q))

NonDegenerate(p) == p.w > 0 /\ p.h > 0

\* The boxes meet in an edge or a corner only on some axis.
EdgeTouching(p, q) ==
  \/ Right(p) = Left(q)
  \/ Right(q) = Left(p)
  \/ Bottom(p) = Top(q)
  \/ Bottom(q) = Top(p)

\* C1: checkAABB(a, b) is true exactly when the four strict comparisons
\* hold, i.e. for boxes of positive size when the overlap has strictly
\* positive extent on both axes; boxes that only share an edge or a corner
\* are reported as not colliding.
C1_StrictOverlap ==
  out.op = "checkAABB" =>
    /\ out.hit <=> (Left(a) < Right(b) /\ Right(a) > Left(b)
                    /\ Top(a) < Bottom(b) /\ Bottom(a) > Top(b))
    /\ (NonDegenerate(a) /\ NonDegenerate(b)) =>
         (out.hit <=> (OverlapX(a, b) > 0 /\ OverlapY(a, b) > 0))
    /\ EdgeTouching(a, b) => ~out.hit

C1_Witness ==
  /\ out.op = "checkAABB"
  /\ NonDegenerate(a) /\ NonDegenerate(b)
  /\ Right(a) = Left(b)
  /\ OverlapY(a, b) > 0
  /\ ~out.hit

\* C2: checkAABB is symmetric in its arguments, for every pair of boxes
\* including empty boxes and boxes at negative coordinates.
C2_Symmetric ==
  out.op = "checkAABB" => (out.hit <=> checkAABB(b, a))

C2_Witness ==
  /\ out.op = "checkAABB"
  /\ out.hit
  /\ a # b
  /\ a.x < 0
  /\ b.w = 0

\* C3: for two overlapping boxes whose horizontal and vertical overlaps are
\* equal, computeCollisionInfo selects the vertical axis.
C3_TieVertical ==
  (/\ out.op = "computeCollisionInfo"
   /\ checkAABB(a, b)
   /\ OverlapX(a, b) = OverlapY(a, b)) =>
     /\ out.info.normalX = 0
     /\ out.info.normalY \in {-1, 1}
     /\ out.info.penetration = OverlapY(a, b)

C3_Witness ==
  /\ out.op = "computeCollisionInfo"
  /\ checkAABB(a, b)
  /\ OverlapX(a, b) = OverlapY(a, b)
  /\ a # b
  /\ out.info.normalY = -1

\* C4: for overlapping boxes the normal has exactly one non-zero component,
\* on the axis of smaller overlap; it is -1 when a's center is strictly
\* below b's center on that axis and +1 otherwise, and the penetration is
\* the overlap on that axis.
C4_NormalAndPenetration ==
  (out.op = "computeCollisionInfo" /\ checkAABB(a, b)) =>
    LET ox == OverlapX(a, b)
        oy == OverlapY(a, b)
        n == out.info
    IN  /\ (n.normalX = 0) # (n.normalY = 0)
        /\ n.normalX # 0 => /\ ox <= oy
                            /\ n.penetration = ox
                            /\ n.normalX =
                                 (IF 2 * Left(a) + a.w < 2 * Left(b) + b.w
                                  THEN -1 ELSE 1)
        /\ n.normalY # 0 => /\ oy <= ox
                            /\ n.penetration = oy
                            /\ n.normalY =
                                 (IF 2 * Top(a) + a.h < 2 * Top(b) + b.h
                                  THEN -1 ELSE 1)
        /\ ox < oy => n.normalX # 0
        /\ oy < ox => n.normalY # 0

C4_Witness ==
  /\ out.op = "computeCollisionInfo"
  /\ checkAABB(a, b)
  /\ OverlapX(a, b) < OverlapY(a, b)
  /\ out.info.normalX = 1
  /\ 2 * Left(a) + a.w = 2 * Left(b) + b.w

\* ------------------------------------------------------------------------
\* Claims about the pairwise handlers (SpecCollide)
\* ------------------------------------------------------------------------
Statics == {"plat", "dp"}

\* The last operation was handleCollision on the player and a static object
PlayerVsStaticDone ==
  /\ lastOp.name = "handleCollision"
  /\ \/ lastOp.first = "player" /\ lastOp.second \in Statics
     \/ lastOp.second = "player" /\ lastOp.first \in Statics

PlayerBoundsBefore ==
  IF lastOp.first = "player" THEN lastOp.boundsA ELSE lastOp.boundsB

StaticBoundsBefore ==
  IF lastOp.first = "player" THEN lastOp.boundsB ELSE lastOp.boundsA

PenetrationBefore ==
  Min(OverlapX(PlayerBoundsBefore, StaticBoundsBefore),
      OverlapY(PlayerBoundsBefore, StaticBoundsBefore))

\* The pair overlapped and the penetration was smaller than the width and
\* the height of both boxes.
SmallPenetration ==
  /\ OverlapX(PlayerBoundsBefore, StaticBoundsBefore) > 0
  /\ OverlapY(PlayerBoundsBefore, StaticBoundsBefore) > 0
  /\ PenetrationBefore < PlayerBoundsBefore.w
  /\ PenetrationBefore < PlayerBoundsBefore.h
  /\ PenetrationBefore < StaticBoundsBefore.w
  /\ PenetrationBefore < StaticBoundsBefore.h

\* C5: after handlePlayerVsStatic has resolved an overlapping player/static
\* pair whose penetration is smaller than the dimensions of the two boxes,
\* the player's updated collision bounds no longer overlap the static box.
C5_PushOutSeparates ==
  (PlayerVsStaticDone /\ SmallPenetration) =>
    ~checkAABB(playerGetCollisionBounds(player), StaticBoundsBefore)

C5_Witness ==
  /\ PlayerVsStaticDone
  /\ SmallPenetration
  /\ lastOp.second = "plat"
  /\ plat.type = "TRAP"
  /\ player.state = "MOVING"
  /\ player.pos_x > 0
  /\ Len(calls) = 2
  /\ calls[1].normalX = 1

\* The participant a pairwise handler calls first, and the one it calls
\* second, for the pair handleCollision was given.
FirstParticipant ==
  IF "player" \in {lastOp.first, lastOp.second} THEN "player" ELSE "proj"

SecondParticipant ==
  IF lastOp.first = FirstParticipant THEN lastOp.second ELSE lastOp.first

BoundsBeforeOf(obj) ==
  IF lastOp.first = obj THEN lastOp.boundsA ELSE lastOp.boundsB

PairwiseHandlerDone ==
  /\ lastOp.name = "handleCollision"
  /\ getType(lastOp.first) # getType(lastOp.second)

\* C6: a pairwise handler makes exactly two onCollision calls: the first
\* participant gets (nx, ny, p) and the second (-nx, -ny, p), where
\* (nx, ny, p) is the collision info of the bounds the two had before the
\* handler ran.
C6_MirroredCallbacks ==
  PairwiseHandlerDone =>
    LET info == computeCollisionInfo(BoundsBeforeOf(FirstParticipant),
                                     BoundsBeforeOf(SecondParticipant))
    IN  /\ Len(calls) = 2
        /\ calls[1] = [to |-> FirstParticipant, other |-> SecondParticipant,
                       normalX |-> info.normalX, normalY |-> info.normalY,
                       penetration |-> info.penetration]
        /\ calls[2] = [to |-> SecondParticipant, other |-> FirstParticipant,
                       normalX |-> -info.normalX, normalY |-> -info.normalY,
                       penetration |-> info.penetration]

C6_Witness ==
  /\ PairwiseHandlerDone
  /\ lastOp.first = "plat"
  /\ lastOp.second = "player"
  /\ Len(calls) = 2
  /\ calls[1].to = "player"
  /\ calls[1].normalY = -1
  /\ calls[2].normalY = 1
  /\ calls[2].penetration > 0
  /\ player.pos_y # lastOp.boundsB.y

\* ------------------------------------------------------------------------
\* Claims about the disappearing platform (SpecDP)
\* ------------------------------------------------------------------------
\* An onCollision call on the platform from the player, from above
TopHit(c) == c.to = "dp" /\ getType(c.other) = "PLAYER" /\ c.normalY > 0

\* C7: after a top collision from the player on a VISIBLE platform, updates
\* whose dt sum to exactly disappearDelay leave it DISAPPEARED with empty
\* bounds; further updates summing to reappearDelay leave it out of
\* DISAPPEARED; one more update leaves it VISIBLE with the latch cleared;
\* and a top collision on the VISIBLE platform triggers it (again).
C7_FullCycle ==
  /\ cyc.stage = "gone" =>
       /\ dp.state = "DISAPPEARED"
       /\ dpGetCollisionBounds(dp) = EmptyRect
  /\ cyc.stage = "back" => dp.state = "REAPPEARING"
  /\ cyc.stage = "extra" =>
       /\ dp.state = "VISIBLE"
       /\ ~dp.triggered
       /\ dp.timer = 0
  /\ (/\ lastOp.name \in {"onCollision", "resolveCollisions",
                           "handleCollision"}
      /\ lastOp.dpBefore.state = "VISIBLE"
      /\ (\E i \in DOMAIN calls : TopHit(calls[i]))) =>
       /\ dp.state = "DISAPPEARING"
       /\ dp.triggered
       /\ dp.timer = 0

\* A second trigger, after a full cycle walked with exact sums
C7_Witness ==
  /\ cyc.count = 2
  /\ cyc.stage = "extra"
  /\ lastOp.name = "update"
  /\ lastOp.dpBefore.state = "REAPPEARING"

\* C8: while the platform is not VISIBLE its collision bounds are the empty
\* rectangle, and an onCollision call on it changes neither its state nor
\* its latch nor its timer.
C8_HiddenIsInert ==
  /\ [](dp.state # "VISIBLE" =>
         (dpGetCollisionBounds(dp) = EmptyRect /\ ~canCollide(dp)))
  /\ [][(dp.state # "VISIBLE" /\ (\E i \in DOMAIN calls' : calls'[i].to = "dp"))
          => dp' = dp]_vars

C8_Witness ==
  /\ dp.state = "DISAPPEARED"
  /\ lastOp.name = "onCollision"
  /\ lastOp.dpBefore.state = "DISAPPEARED"
  /\ Len(calls) = 1
  /\ TopHit(calls[1])

\* C9: the platform leaves VISIBLE only in a step that delivers it an
\* onCollision call from the player with normalY > 0 while the latch is not
\* set; a step that delivers it only side, under-side or non-player
\* collisions leaves it unchanged.
C9_OnlyTopHitTriggers ==
  /\ [][(dp.state = "VISIBLE" /\ dp'.state # "VISIBLE") =>
          (/\ ~dp.triggered
           /\ dp'.state = "DISAPPEARING"
           /\ \E i \in DOMAIN calls' : TopHit(calls'[i]))]_vars
  /\ [][(/\ (\E i \in DOMAIN calls' : calls'[i].to = "dp")
          /\ (\A j \in DOMAIN calls' : ~TopHit(calls'[j]))) => dp' = dp]_vars

\* The player has just been resolved against the side of the platform, which
\* stayed VISIBLE.
C9_Witness ==
  /\ lastOp.name = "resolveCollisions"
  /\ dp.state = "VISIBLE"
  /\ Len(calls) = 2
  /\ calls[2].to = "dp"
  /\ calls[2].other = "player"
  /\ calls[2].normalX # 0
  /\ calls[2].normalY = 0

\* ------------------------------------------------------------------------
\* Claims about the player (SpecPlayer)
\* ------------------------------------------------------------------------
\* The step is a startDash call, or a handleMovement call with the dash
\* intent set.
DashRequested ==
  \/ lastOp'.name = "startDash"
  \/ lastOp'.name = "handleMovement" /\ lastOp'.dash

\* C10: a dash request made while dashCooldownTimer > 0 leaves isDashing()
\* false and leaves dashTimer, dashDirection and dashCooldownTimer
\* unchanged.
C10_CooldownGatesDash ==
  [][(player.dashCooldownTimer > 0 /\ DashRequested) =>
       /\ ~player'.dashing
       /\ player'.dashTimer = player.dashTimer
       /\ player'.dashDirection = player.dashDirection
       /\ player'.dashCooldownTimer = player.dashCooldownTimer]_vars

C10_Witness ==
  /\ lastOp.name = "handleMovement"
  /\ lastOp.dash
  /\ player.dashCooldownTimer > 0
  /\ player.dashCooldownTimer < PLAYER_DASH_COOLDOWN
  /\ ~player.dashing
  /\ ~player.crouching

\* C11: with the same start, dt and intents, a run that releases jump after
\* k1 ticks never reaches a greater peak height than a run that releases it
\* after k2 >= k1 ticks (for every k1 <= k2 up to MaxHold, inside the
\* jump-duration window and beyond it).
C11_PeakMonotonic ==
  jumpRuns.tick > 0 => jumpRuns.peakEarly >= jumpRuns.peakLate

C11_Witness ==
  /\ jumpRuns.tick = MaxTicks
  /\ 0 < jumpRuns.k1
  /\ jumpRuns.k1 < jumpRuns.k2
  /\ (jumpRuns.k2 - 1) * jumpRuns.dt < PLAYER_JUMP_DURATION
  /\ jumpRuns.peakLate < jumpRuns.peakEarly
  /\ jumpRuns.peakEarly < 0
  /\ jumpRuns.early.pos_y > jumpRuns.peakEarly

\* Where the update's motion alone takes the projectile pr in time dt
MovedBounds(pr, dt) ==
  [pr.bounds EXCEPT !.x = @ + pr.vel_x * dt, !.y = @ + pr.vel_y * dt]

\* Rectangle r has no point in common with rectangle w.
EntirelyOutside(r, w) ==
  \/ Right(r) < Left(w)
  \/ Left(r) > Right(w)
  \/ Bottom(r) < Top(w)
  \/ Top(r) > Bottom(w)

ArrowLeftWorld ==
  /\ lastOp.name = "update"
  /\ proj.projectileType = "ARROW"
  /\ EntirelyOutside(MovedBounds(lastOp.before, lastOp.dt), worldBounds(map))

\* C12: an update that moves an ARROW's bounds entirely outside the world
\* rectangle leaves the arrow exactly at its stored original coordinates,
\* with its size and velocity as before and shouldRemove false.
C12_ArrowRespawns ==
  ArrowLeftWorld =>
    /\ proj.bounds = [lastOp.before.bounds EXCEPT
                        !.x = lastOp.before.originalX,
                        !.y = lastOp.before.originalY]
    /\ proj.originalX = lastOp.before.originalX
    /\ proj.originalY = lastOp.before.originalY
    /\ ~proj.shouldRemove

C12_Witness ==
  /\ ArrowLeftWorld
  /\ lastOp.count >= 2
  /\ lastOp.before.bounds.x # lastOp.before.originalX
  /\ proj.bounds.x = lastOp.created.bounds.x
  /\ proj.bounds.y = lastOp.created.bounds.y

\* C13: after any sequence of updates a COIN's getCollisionBounds() is the
\* bounds it was created with; the bob shows in the sprite's destination
\* rectangle only.
C13_CoinBoundsStable ==
  (proj.projectileType = "COIN" /\ lastOp.name = "update") =>
    /\ getCollisionBounds(World, "proj") = lastOp.created.bounds
    /\ proj.dest = [lastOp.created.bounds EXCEPT
                      !.y = IF proj.hasSprite
                            THEN proj.baseY + bobOffset(proj.bobTimer)
                            ELSE @]

C13_Witness ==
  /\ proj.projectileType = "COIN"
  /\ lastOp.name = "update"
  /\ lastOp.count >= 2
  /\ proj.dest.y # lastOp.before.dest.y
  /\ proj.dest.y # proj.bounds.y
  /\ getCollisionBounds(World, "proj") = lastOp.created.bounds

\* ------------------------------------------------------------------------
\* The tile map
\* ------------------------------------------------------------------------
\* The world rectangle of the grid cell held at place k of layer L's array
CellOf(L, k) ==
  Rect(((k - 1) % L.width) * L.tileSizeW, ((k - 1) \div L.width) * L.tileSizeH,
       L.tileSizeW, L.tileSizeH)

\* The world rectangle of the whole grid of layer L
GridOf(L) == Rect(0, 0, L.width * L.tileSizeW, L.height * L.tileSizeH)

\* Rectangles r and c share interior points (r may have no area).
CellOverlaps(c, r) ==
  /\ Left(c) < Right(r) /\ Right(c) > Left(r)
  /\ Top(c) < Bottom(r) /\ Bottom(c) > Top(r)

\* Rectangles r and c share at least a point.
CellTouches(c, r) ==
  /\ Left(c) <= Right(r) /\ Right(c) >= Left(r)
  /\ Top(c) <= Bottom(r) /\ Bottom(c) >= Top(r)

ResultSet == { lastOp.result[i] : i \in DOMAIN lastOp.result }

\* C15: Map::getTilesInRect returns every non-null tile of every collidable
\* layer whose grid cell overlaps the query rectangle, no tile of a
\* non-collidable layer, and no null entry.
C15_NeverMissesCollider ==
  lastOp.name = "Map::getTilesInRect" =>
    /\ \A j \in DOMAIN map.layers :
         \A k \in DOMAIN map.layers[j].tiles :
           LET L == map.layers[j]
               t == L.tiles[k]
           IN  IF L.collidable
               THEN (t # NullTile /\ CellOverlaps(CellOf(L, k), lastOp.rect))
                      => t \in ResultSet
               ELSE t \notin ResultSet
    /\ NullTile \notin ResultSet

\* A query that overlaps a tile of a collidable layer and a tile of a
\* non-collidable layer, and leaves some tile of the collidable layer out
C15_Witness ==
  /\ lastOp.name = "Map::getTilesInRect"
  /\ \E j \in DOMAIN map.layers :
       /\ map.layers[j].collidable
       /\ \E k \in DOMAIN map.layers[j].tiles :
            /\ map.layers[j].tiles[k] \in ResultSet
            /\ CellOverlaps(CellOf(map.layers[j], k), lastOp.rect)
       /\ \E k2 \in DOMAIN map.layers[j].tiles :
            /\ map.layers[j].tiles[k2] # NullTile
            /\ map.layers[j].tiles[k2] \notin ResultSet
  /\ \E j2 \in DOMAIN map.layers :
       /\ ~map.layers[j2].collidable
       /\ \E k3 \in DOMAIN map.layers[j2].tiles :
            /\ map.layers[j2].tiles[k3] # NullTile
            /\ CellOverlaps(CellOf(map.layers[j2], k3), lastOp.rect)

\* C16: Layer::getTilesInRect visits only cells of the grid that the query
\* rectangle covers, each once, and returns no tiles for a rectangle that
\* lies entirely outside the grid, negative world coordinates included.
C16_ClampsToGrid ==
  lastOp.name = "Layer::getTilesInRect" =>
    LET L == map.layers[lastOp.layer]
        cells == lastOp.cells
    IN  /\ \A i \in DOMAIN cells :
             /\ cells[i].x >= 0 /\ cells[i].x < L.width
             /\ cells[i].y >= 0 /\ cells[i].y < L.height
             /\ CellTouches(CellOf(L, cells[i].y * L.width + cells[i].x + 1),
                            lastOp.rect)
             /\ \A i2 \in DOMAIN cells : cells[i2] = cells[i] => i2 = i
        /\ EntirelyOutside(lastOp.rect, GridOf(L)) => lastOp.result = <<>>

\* C17: for a tile coordinate outside the grid, setTile and removeTile of
\* Layer and Map leave the grid as it was and getTile returns null; an
\* index used on the tile array is always inside it.
C17_OutOfRangeAccess ==
  lastOp.name \in {"setTile", "removeTile", "getTile"} =>
    LET width == IF lastOp.on = "Layer" THEN map.layers[lastOp.layer].width
                 ELSE map.width
        height == IF lastOp.on = "Layer" THEN map.layers[lastOp.layer].height
                  ELSE map.height
        inside == /\ 0 <= lastOp.x /\ lastOp.x < width
                  /\ 0 <= lastOp.y /\ lastOp.y < height
    IN  /\ ~inside => /\ lastOp.gridAfter = lastOp.gridBefore
                      /\ lastOp.result = NullTile
                      /\ lastOp.used = <<>>
        /\ \A i \in DOMAIN lastOp.used :
             0 <= lastOp.used[i] /\ lastOp.used[i] < lastOp.size

\* setTile on a layer full of tiles, one column past the right edge of the
\* first row: the index y * width + x would fall inside the array
C17_Witness ==
  /\ lastOp.name = "setTile"
  /\ lastOp.on = "Layer"
  /\ lastOp.x = map.layers[lastOp.layer].width
  /\ lastOp.y = 0
  /\ lastOp.gridBefore[lastOp.x + 1] # NullTile

\* The load of the TMX file fails
LoadFails(tmx) == loadFileThrows(tmx) \/ getLayersInfoThrows(tmx)

\* C18: whatever way the map load fails, Map::init returns without an
\* exception and leaves the map empty: no layers, no projectiles, no
\* disappearing platforms, and no tile found by any query.
C18_FailedLoadLeavesEmptyMap ==
  (lastOp.name = "init" /\ LoadFails(lastOp.tmx)) =>
    /\ ~lastOp.threw
    /\ map.layers = <<>>
    /\ map.projectiles = <<>>
    /\ map.disappearingPlatforms = <<>>
    /\ \A rect \in QueryRects : mapGetTilesInRect(map, rect) = <<>>

\* ------------------------------------------------------------------------
\* The frame
\* ------------------------------------------------------------------------
\* The non-null tiles of the collidable layers of map m
StaticTiles(m) ==
  { m.layers[j].tiles[k] :
      j \in { jj \in DOMAIN m.layers : m.layers[jj].collidable },
      k \in 1..(m.width * m.height) } \ {NullTile}

\* Tile t lies under the box r, g below its bottom edge, with no other tile
\* in between.
DirectlyBelow(m, t, r, g) ==
  /\ t.type = "LAND"
  /\ Left(t.bounds) < Right(r) /\ Right(t.bounds) > Left(r)
  /\ Top(t.bounds) = Bottom(r) + g
  /\ \A t2 \in StaticTiles(m) :
       (Left(t2.bounds) < Right(r) /\ Right(t2.bounds) > Left(r))
         => Top(t2.bounds) >= Top(t.bounds)

\* The frame that has just run started with the player at rest, g > 0 above
\* the static platform t, no key held, and dt large enough for gravity to
\* close the gap.
RestingAbove(t, g) ==
  /\ lastOp.name = "frame"
  /\ lastOp.keys = Keys(FALSE, FALSE, FALSE, FALSE)
  /\ lastOp.playerBefore.vel_x = 0 /\ lastOp.playerBefore.vel_y = 0
  /\ ~lastOp.playerBefore.dashing /\ ~lastOp.playerBefore.crouching
  /\ ~lastOp.playerBefore.isJumping
  /\ g > 0
  /\ DirectlyBelow(lastOp.mapBefore, t,
                   playerGetCollisionBounds(lastOp.playerBefore), g)
  /\ PLAYER_GRAVITY * lastOp.dt >= g

\* C14: a player at rest directly above a static platform with a gap, after
\* one frame with gravity-only velocity and dt large enough to close the
\* gap, has had a vertical collision reported by the resolver, is grounded,
\* and has the bottom edge of its collision box on the platform's top edge.
C14_LandsWithinOneFrame ==
  \A t \in StaticTiles(lastOp.mapBefore), g \in 1..(LevelH * DEFAULT_TILE_HEIGHT) :
    RestingAbove(t, g) =>
      /\ \E i \in DOMAIN lastOp.resolved :
           /\ lastOp.resolved[i].to = "player"
           /\ lastOp.resolved[i].normalY # 0
      /\ player.onGround
      /\ Bottom(playerGetCollisionBounds(player)) = Top(t.bounds)

\* C19: in a frame, a projectile whose shouldRemove flag becomes true stays
\* in the list of projectiles for the whole collision dispatch and is
\* erased only by the removeDeadProjectiles sweep at the end of the frame;
\* the list is the same at every turn of the player-vs-projectile loop,
\* and callbacks go only to projectiles that are in the list.
C19_ErasedOnlyBySweep ==
  lastOp.name = "frame" =>
    LET ids == [k \in DOMAIN lastOp.atLoopStart |-> lastOp.atLoopStart[k].id]
    IN  /\ ids = [k \in DOMAIN lastOp.mapBefore.projectiles |->
                    lastOp.mapBefore.projectiles[k].id]
        /\ Len(lastOp.loop) = Len(ids)
        /\ \A i \in DOMAIN lastOp.loop :
             /\ lastOp.loop[i].ids = ids
             /\ lastOp.loop[i].at = i
             /\ lastOp.loop[i].id = ids[i]
        /\ [k \in DOMAIN lastOp.atLoopEnd |-> lastOp.atLoopEnd[k].id] = ids
        /\ map.projectiles
             = SelectSeq(lastOp.atLoopEnd, LAMBDA pr : ~pr.shouldRemove)

\* A frame in which a coin is marked for removal at one turn of the loop,
\* another projectile gets its callback at a later turn, and the sweep
\* shortens the list
C19_Witness ==
  /\ lastOp.name = "frame"
  /\ \E i \in DOMAIN lastOp.loop, j \in DOMAIN lastOp.loop :
       /\ i < j
       /\ lastOp.loop[i].called
       /\ lastOp.atLoopEnd[i].shouldRemove
       /\ ~lastOp.atLoopStart[i].shouldRemove
       /\ lastOp.loop[j].called
  /\ Len(map.projectiles) < Len(lastOp.atLoopEnd)

C21_NoNullCollider ==
  /\ ~lastOp.crashed
  /\ \A i \in DOMAIN lastOp.colliders : lastOp.colliders[i] # NullTile
  /\ \A i \in DOMAIN lastOp.probed : lastOp.probed[i] # NullTile

\* A frame whose candidate list and ground probe both found tiles while the
\* cells the player's box covers in a collidable layer include an empty one
C21_Witness ==
  /\ lastOp.name = "frame"
  /\ lastOp.colliders # <<>>
  /\ lastOp.probed # <<>>
  /\ ~lastOp.keys.moveRight
  /\ \E j \in DOMAIN lastOp.mapBefore.layers :
       LET L == lastOp.mapBefore.layers[j]
           cells == layerCellsInRect(
                      L, playerGetCollisionBounds(lastOp.playerBefore))
       IN  /\ L.collidable
           /\ \E i \in DOMAIN cells :
                layerGetTile(L, cells[i].x, cells[i].y) = NullTile

\* ------------------------------------------------------------------------
\* Claims about the collision callbacks (SpecCallback)
\* ------------------------------------------------------------------------
\* The last operation was an onCollision call delivered to a TrapPlatform
TrapCalled ==
  /\ lastOp.name = "onCollision"
  /\ lastOp.self = "plat"
  /\ lastOp.before.plat.type = "TRAP"

\* C22: an onCollision call on a TrapPlatform with the player as the other
\* participant leaves the player dead, for every normal and penetration, and
\* changes nothing else; with any other object it changes nothing.
C22_TrapKillsPlayerOnly ==
  TrapCalled =>
    /\ plat = lastOp.before.plat
    /\ dp = lastOp.before.dp
    /\ proj = lastOp.before.proj
    /\ IF getType(lastOp.other) = "PLAYER"
       THEN /\ player.dead
            /\ player = [lastOp.before.player EXCEPT !.dead = TRUE]
       ELSE player = lastOp.before.player

\* A trap touched by a living player from the side with no penetration
C22_Witness ==
  /\ TrapCalled
  /\ lastOp.other = "player"
  /\ lastOp.normalX = 1 /\ lastOp.normalY = 0 /\ lastOp.penetration = 0
  /\ ~lastOp.before.player.dead
  /\ player.dead

\* ------------------------------------------------------------------------
\* Claims about the player's movement (SpecPlayer)
\* ------------------------------------------------------------------------
\* C23: after every RectPlayer::update the movement state is the one the
\* flags of that moment give by priority: CROUCHING if crouching, else
\* JUMPING if isJumping, else MOVING if dashing or vel_x # 0, else IDLE.
C23_StateIsDerived ==
  lastOp.name = "update" =>
    CASE player.crouching -> player.state = "CROUCHING"
      [] ~player.crouching /\ player.isJumping -> player.state = "JUMPING"
      [] ~player.crouching /\ ~player.isJumping
           /\ (player.dashing \/ player.vel_x # 0) -> player.state = "MOVING"
      [] OTHER -> player.state = "IDLE"

\* An update that leaves a player who is both jumping and dashing
C23_Witness ==
  /\ lastOp.name = "update"
  /\ player.isJumping
  /\ player.dashing
  /\ player.state = "JUMPING"

\* The dash ends in this step
DashEnds == player.dashing /\ ~player'.dashing

\* This step is an update that takes the dash timer to the dash duration
UpdateReachesDuration ==
  /\ lastOp'.name = "update"
  /\ player.dashTimer + lastOp.pendingDt >= PLAYER_DASH_DURATION

\* Every update decreases a running cooldown by its dt
CooldownTicks ==
  [][(lastOp'.name = "update" /\ player.dashCooldownTimer > 0) =>
       player'.dashCooldownTimer
         = player.dashCooldownTimer - lastOp.pendingDt]_vars

\* C26 as stated: a dash, once started, ends only in the update that takes
\* dashTimer to dashDuration, and stays active in every other step; when it
\* ends dashCooldownTimer is the configured cooldown, and every update then
\* decreases it by dt while it is above zero.
C26_DashEndsOnlyAtDuration ==
  /\ [][DashEnds =>
          (/\ UpdateReachesDuration
           /\ player'.dashCooldownTimer = PLAYER_DASH_COOLDOWN)]_vars
  /\ CooldownTicks

\* C26 amended: a dash ends in the update that takes dashTimer to
\* dashDuration, or in a handleMovement that runs its dash handling (the
\* player is not crouching on the ground) without the dash intent, and in
\* no other step; it stays active in every update below the duration and in
\* every handleMovement with the dash intent; when it ends
\* dashCooldownTimer is the configured cooldown, and every update then
\* decreases it by dt while it is above zero.
C26_DashEndsAtDurationOrRelease ==
  /\ [][DashEnds =>
          (/\ player'.dashCooldownTimer = PLAYER_DASH_COOLDOWN
           /\ \/ UpdateReachesDuration
              \/ /\ lastOp'.name = "handleMovement"
                 /\ ~lastOp'.dash
                 /\ ~lastOp'.crouch)]_vars
  /\ [][(player.dashing /\ lastOp'.name = "update"
          /\ ~UpdateReachesDuration) => player'.dashing]_vars
  /\ [][(player.dashing /\ lastOp'.name = "handleMovement"
          /\ (lastOp'.dash \/ lastOp'.crouch)) => player'.dashing]_vars
  /\ [][(player.dashing /\ lastOp'.name = "handleMovement"
          /\ ~lastOp'.dash /\ ~lastOp'.crouch) => ~player'.dashing]_vars
  /\ [][(player.dashing /\ UpdateReachesDuration) => ~player'.dashing]_vars
  /\ CooldownTicks

\* An update has just ended a dash at its duration: the cooldown is whole
C26_Witness ==
  /\ lastOp.name = "update"
  /\ ~player.dashing
  /\ player.dashCooldownTimer = PLAYER_DASH_COOLDOWN

\* C27: a handleMovement with crouch requested on the ground sets both
\* velocity components to zero and the crouching flag, and nothing else (no
\* dash, horizontal, gravity or jump processing); the flag stays set until
\* the update, and the update of a crouching player leaves pos_x and pos_y
\* (and the rectangle) where they are.
C27_CrouchFreezesPlayer ==
  /\ [][(lastOp'.name = "handleMovement" /\ lastOp'.crouch) =>
          player' = [player EXCEPT !.crouching = TRUE, !.vel_x = 0,
                                   !.vel_y = 0]]_vars
  /\ [][(lastOp'.name \in {"startDash", "onCollision"}) =>
          player'.crouching = player.crouching]_vars
  /\ [][(lastOp'.name = "update" /\ player.crouching) =>
          /\ player'.pos_x = player.pos_x
          /\ player'.pos_y = player.pos_y
          /\ player'.rect_x = player.rect_x
          /\ player'.rect_y = player.rect_y]_vars

\* An update has just run on a crouching player whose dash, started before
\* the crouch, is still active
C27_Witness ==
  /\ lastOp.name = "update"
  /\ player.crouching
  /\ player.dashing
  /\ player.vel_x = 0
  /\ player.vel_y = 0
  /\ player.state = "CROUCHING"

\* This step is a handleMovement that runs its jump handling with jump
\* pressed while the player is grounded
GroundJump ==
  /\ lastOp'.name = "handleMovement"
  /\ lastOp'.jump /\ ~lastOp'.crouch
  /\ player.onGround

\* This step is a handleMovement with jump held while the player is
\* airborne, jumping, and below the jump-duration cap
HeldJump ==
  /\ lastOp'.name = "handleMovement"
  /\ lastOp'.jump
  /\ ~player.onGround
  /\ player.isJumping
  /\ player.jumpTimer < PLAYER_JUMP_DURATION

CycleSuccessor(state) ==
  CASE state = "VISIBLE" -> "DISAPPEARING"
    [] state = "DISAPPEARING" -> "DISAPPEARED"
    [] state = "DISAPPEARED" -> "REAPPEARING"
    [] state = "REAPPEARING" -> "VISIBLE"

\* C24: the platform's state changes only along VISIBLE -> DISAPPEARING ->
\* DISAPPEARED -> REAPPEARING -> VISIBLE, one transition per step, with the
\* timer at zero right after; an update in DISAPPEARING moves on exactly
\* when the time accumulated since the trigger reaches disappearDelay, an
\* update in DISAPPEARED exactly when the time accumulated since then
\* reaches reappearDelay, and otherwise the update only adds dt to the
\* timer, however large dt is.
C24_CycleOrder ==
  /\ [][dp'.state # dp.state =>
          /\ dp'.state = CycleSuccessor(dp.state)
          /\ dp'.timer = 0
          /\ (dp.state # "VISIBLE" => lastOp'.name = "update")]_vars
  /\ [][(lastOp'.name = "update" /\ dp.state = "DISAPPEARING") =>
          IF dp.timer + lastOp'.dt >= DISAPPEAR_DELAY
          THEN dp'.state = "DISAPPEARED"
          ELSE dp'.state = "DISAPPEARING"
               /\ dp'.timer = dp.timer + lastOp'.dt]_vars
  /\ [][(lastOp'.name = "update" /\ dp.state = "DISAPPEARED") =>
          IF dp.timer + lastOp'.dt >= REAPPEAR_DELAY
          THEN dp'.state = "REAPPEARING"
          ELSE dp'.state = "DISAPPEARED"
               /\ dp'.timer = dp.timer + lastOp'.dt]_vars

\* An update whose dt is longer than both delays together has just left the
\* platform DISAPPEARED with the timer at zero
C24_Witness ==
  /\ lastOp.name = "update"
  /\ lastOp.dpBefore.state = "DISAPPEARING"
  /\ lastOp.dt > DISAPPEAR_DELAY + REAPPEAR_DELAY
  /\ dp.state = "DISAPPEARED"
  /\ dp.timer = 0

\* C25: an object whose collision bounds are the empty rectangle does not
\* collide: checkAABB of the player's bounds and the empty rectangle is
\* false wherever the player is, and resolveCollisions with a hidden
\* disappearing platform as its candidate makes no callback and leaves the
\* player where it is.
C25_EmptyBoundsNeverCollide ==
  /\ [](~checkAABB(playerGetCollisionBounds(player), EmptyRect))
  /\ [][(lastOp'.name = "resolveCollisions" /\ ~canCollide(dp)) =>
          (calls' = <<>> /\ player' = player)]_vars

\* ------------------------------------------------------------------------
\* Further claims about the collision callbacks (SpecCallback)
\* ------------------------------------------------------------------------
\* The last operation was an onCollision call delivered to the player
PlayerCalled == lastOp.name = "onCollision" /\ lastOp.self = "player"

\* C29: RectPlayer::onCollision with a normal pointing up (normalY < -0.5)
\* zeroes vel_y, sets grounded and clears isJumping and jumpTimer; with a
\* normal pointing down (normalY > 0.5) it clears grounded and zeroes vel_y
\* only if it was negative; with a horizontal normal (|normalY| <= 0.5 and
\* |normalX| > 0.5) it zeroes vel_x and clears grounded; every other field
\* of the player (position, rectangle, dash state, dead flag) and every
\* other object stay as they were.
C29_PlayerCallback ==
  PlayerCalled =>
    LET p0 == lastOp.before.player
    IN  /\ plat = lastOp.before.plat
        /\ dp = lastOp.before.dp
        /\ proj = lastOp.before.proj
        /\ player =
             CASE lastOp.normalY < 0 ->
                    [p0 EXCEPT !.vel_y = 0, !.onGround = TRUE,
                               !.isJumping = FALSE, !.jumpTimer = 0]
               [] lastOp.normalY > 0 ->
                    [p0 EXCEPT !.vel_y = IF p0.vel_y < 0 THEN 0 ELSE p0.vel_y,
                               !.onGround = FALSE]
               [] lastOp.normalY = 0 /\ lastOp.normalX # 0 ->
                    [p0 EXCEPT !.vel_x = 0, !.onGround = FALSE]
               [] OTHER -> p0

\* A grounded, dashing player falling against a surface above it: grounded
\* is cleared, the downward velocity and the dash are kept
C29_Witness ==
  /\ PlayerCalled
  /\ lastOp.normalY = 1
  /\ lastOp.before.player.onGround
  /\ lastOp.before.player.vel_y > 0
  /\ lastOp.before.player.dashing
  /\ ~player.onGround
  /\ player.vel_y = lastOp.before.player.vel_y
  /\ player.dashing

\* ------------------------------------------------------------------------
\* Further claims about the frame (SpecGame)
\* ------------------------------------------------------------------------
\* The player as turn i of the player-vs-projectile loop leaves it
PlayerAfterTurn(i) ==
  IF i < Len(lastOp.loop) THEN lastOp.loop[i + 1].playerBefore ELSE player

\* C30: in a frame the grounded flag goes from false to true only through a
\* collision with a static object beneath the player: a player who ends
\* the frame grounded without having started it grounded got a callback
\* from the resolver with a normal pointing up, and no turn of the
\* player-vs-projectile loop (coins, arrows) makes the player grounded.
C30_GroundedOnlyBySurface ==
  lastOp.name = "frame" =>
    /\ (player.onGround /\ ~lastOp.playerBefore.onGround) =>
         \E k \in DOMAIN lastOp.resolved :
           /\ lastOp.resolved[k].to = "player"
           /\ getType(lastOp.resolved[k].other) = "STATIC_OBJECT"
           /\ lastOp.resolved[k].normalY < 0
    /\ \A i \in DOMAIN lastOp.loop :
         PlayerAfterTurn(i).onGround => lastOp.loop[i].playerBefore.onGround

\* ------------------------------------------------------------------------
\* Further claims about the map (SpecMap)
\* ------------------------------------------------------------------------
\* The entities Map::init made out of tiles: coins, arrows, disappearing
\* platforms. Each keeps the id (layer of the file, cell) of its tile.
ConvertedIds(m) ==
  { m.projectiles[i].id : i \in DOMAIN m.projectiles }
    \cup { m.disappearingPlatforms[i].id : i \in DOMAIN m.disappearingPlatforms }

\* The tile objects the layers kept in the map still hold
KeptTileIds(m) ==
  UNION { { m.layers[j].tiles[k].id :
              k \in { c \in DOMAIN m.layers[j].tiles :
                        m.layers[j].tiles[c] # NullTile } } :
          j \in DOMAIN m.layers }

\* C31: after Map::init the static-tile and the dynamic-entity
\* representations exclude each other: no layer kept in the map still holds
\* the tile object of a cell whose tile was converted into a coin, a
\* disappearing platform or an arrow.
C31_ConvertedCellsHoldNoTile ==
  (lastOp.name = "init" /\ ~lastOp.threw) =>
    ConvertedIds(map) \cap KeptTileIds(map) = {}

\* The last operation was an onCollision call delivered to the projectile
\* with the player as the other participant
ProjectileHitPlayer ==
  /\ lastOp.name = "onCollision"
  /\ lastOp.self = "proj"
  /\ lastOp.other = "player"

SoftReset(p) ==
  [p EXCEPT !.pos_x = PLAYER_START_X, !.pos_y = PLAYER_START_Y,
            !.rect_x = PLAYER_START_X, !.rect_y = PLAYER_START_Y,
            !.dead = FALSE]

\* Some turn of the frame's player-vs-projectile loop delivered the
\* callbacks of an arrow
ArrowHitInLoop(op) ==
  \E i \in DOMAIN op.loop :
    /\ op.loop[i].called
    /\ op.atLoopStart[op.loop[i].at].projectileType = "ARROW"

\* C33: death is a soft reset with bounded response.  A dead flag set in an
\* unpaused tick before its death handling (trap collision, trap layer) is
\* handled in that tick; one set after it (an arrow in the projectile loop)
\* is still set when the next unpaused tick reaches its death handling.
\* The death handling leaves the same player at the start position with the
\* dead flag cleared and every other field kept, so the flag never outlives
\* the death handling of the next unpaused tick.
C33_DeathIsSoftReset ==
  [][ lastOp'.name = "frame" =>
        /\ player.dead => lastOp'.deathStep.found.dead
        /\ lastOp'.deathStep.found.dead =>
             lastOp'.deathStep.left = SoftReset(lastOp'.deathStep.found)
        /\ ~lastOp'.deathStep.found.dead =>
             lastOp'.deathStep.left = lastOp'.deathStep.found
        /\ ~lastOp'.deathStep.left.dead
        /\ player'.dead => ArrowHitInLoop(lastOp') ]_vars

\* A tick that started with a player an arrow killed in the tick before,
\* away from the start position when the death handling finds it
C33_Witness ==
  /\ lastOp.name = "frame"
  /\ lastOp.playerBefore.dead
  /\ lastOp.deathStep.found.dead
  /\ lastOp.deathStep.found.pos_y # PLAYER_START_Y
  /\ lastOp.deathStep.left.pos_x = PLAYER_START_X
  /\ lastOp.deathStep.left.pos_y = PLAYER_START_Y
  /\ ~lastOp.deathStep.left.dead

\* A tick in which the player died on a trap and was put back at once
C33_WitnessTrap ==
  /\ lastOp.name = "frame"
  /\ ~lastOp.playerBefore.dead
  /\ lastOp.deathStep.found.dead
  /\ ~player.dead

\* ------------------------------------------------------------------------
\* Claims about the disappearing platform's latch and its return (SpecDP,
\* SpecDPLive)
\* ------------------------------------------------------------------------
\* C34: in every state reachable by onCollision and update calls in any
\* order, the trigger latch of the DisappearingPlatform is set if and only
\* if its state is not VISIBLE, and its timer is 0 whenever it is VISIBLE.
C34_LatchFollowsState ==
  /\ dp.triggered <=> dp.state # "VISIBLE"
  /\ dp.state = "VISIBLE" => dp.timer = 0

\* The platform back to VISIBLE at the end of a cycle, the latch released
C34_Witness ==
  /\ lastOp.name = "update"
  /\ lastOp.dpBefore.state = "REAPPEARING"
  /\ lastOp.dpBefore.triggered
  /\ lastOp.dt > 0
  /\ dp.state = "VISIBLE"
  /\ ~dp.triggered
  /\ dp.timer = 0

\* DisappearingPlatform::update called with time passing, as Game::run does
\* in every unpaused frame
DPTick ==
  \E dt \in (1..MaxDt) \cup {LongDt} :
    /\ dp' = dpUpdate(dp, dt)
    /\ cyc' = CycleTick(cyc, dt)
    /\ calls' = <<>>
    /\ lastOp' = [name |-> "update", dpBefore |-> dp, dt |-> dt]
    /\ UNCHANGED <<player, plat, proj>>
    /\ UNCHANGED geomVars
    /\ UNCHANGED gameVars

\* DisappearingPlatform::update called with no time passed
DPStall ==
  /\ dp' = dpUpdate(dp, 0)
  /\ cyc' = CycleTick(cyc, 0)
  /\ calls' = <<>>
  /\ lastOp' = [name |-> "update", dpBefore |-> dp, dt |-> 0]
  /\ UNCHANGED <<player, plat, proj>>
  /\ UNCHANGED geomVars
  /\ UNCHANGED gameVars

DPLiveNext ==
  \/ DPTick
  \/ DPStall
  \/ DPOnCollisionCall
  \/ DPResolveCall

\* The platform under update calls and collisions in any order, update
\* being called with dt > 0 again and again
SpecDPLive == DPSceneInit /\ [][DPLiveNext]_vars /\ WF_vars(DPTick)

\* C35: a triggered DisappearingPlatform always comes back: while update
\* keeps being called with dt > 0, from any state other than VISIBLE the
\* platform eventually reaches VISIBLE again, whatever collisions are
\* delivered in the meantime.
C35_PlatformComesBack ==
  (dp.state # "VISIBLE") ~> (dp.state = "VISIBLE")

\* The platform hidden and hit by the player from above before it returns
C35_Witness ==
  /\ lastOp.name = "onCollision"
  /\ lastOp.dpBefore.state = "DISAPPEARED"
  /\ dp.state = "DISAPPEARED"
  /\ dp.triggered
  /\ \E k \in DOMAIN calls :
       calls[k].to = "dp" /\ calls[k].other = "player" /\ calls[k].normalY > 0

\* ------------------------------------------------------------------------
\* The dash and its cooldown over frames, with the time since the last dash
\* ended kept beside the player (SpecDash)
\* ------------------------------------------------------------------------
MaxDashTravel == 4

\* No dash has ended yet and no handleMovement is waiting for its update.
NoDashYet ==
  [name |-> "none", dash |-> FALSE, pendingDt |-> 0, ended |-> FALSE,
   sinceEnd |-> 0]

DashInit ==
  /\ GeomIdle
  /\ GameIdle
  /\ player = PlayerInit(0, 0)
  /\ plat = PlatInit("LAND", Rect(0, 0, 4, 4))
  /\ dp = DPInit(DPBox)
  /\ proj = ProjInit("COIN", ProjBox, 0, 0, 0, 0)
  /\ calls = <<>>
  /\ lastOp = NoDashYet
  /\ cyc = NoCycle

\* The player becomes p by the operation name; dt is the time the operation
\* lets pass. The dt of the update calls since the last end of a dash is
\* summed up to the cooldown.
DashStep(p, name, dash, pendingDt, dt) ==
  LET endsNow == player.dashing /\ ~p.dashing
  IN  PlayerStep(p, [name |-> name, dash |-> dash, pendingDt |-> pendingDt,
                     ended |-> lastOp.ended \/ endsNow,
                     sinceEnd |-> IF endsNow THEN 0
                                  ELSE Min(lastOp.sinceEnd + dt,
                                           PLAYER_DASH_COOLDOWN)])

\* Game::updatePlayerPos, first part: RectPlayer::handleMovement with the
\* dash and crouch intents
DashHandleMovement ==
  \E dt \in 1..MaxDt, dash \in BOOLEAN, crouch \in BOOLEAN :
    /\ lastOp.pendingDt = 0
    /\ DashStep(handleMovement(player, dt, FALSE, FALSE, FALSE, FALSE, dash,
                               crouch /\ player.onGround),
                "handleMovement", dash, dt, 0)

\* Game::updatePlayerPos, last part: RectPlayer::update with the frame's dt
DashUpdate ==
  LET p == update(player, lastOp.pendingDt)
  IN  /\ lastOp.pendingDt > 0
      /\ Abs(p.pos_x) <= MaxDashTravel
      /\ Abs(p.pos_y) <= MaxDashTravel
      /\ DashStep(p, "update", FALSE, 0, lastOp.pendingDt)

\* RectPlayer::startDash called directly
DashStartDash ==
  \E direction \in {"LEFT", "RIGHT"} :
    DashStep(startDash(player, direction), "startDash", TRUE,
             lastOp.pendingDt, 0)

\* RectPlayer::onCollision for a tile under the player, between
\* handleMovement and update
DashLanding ==
  /\ lastOp.pendingDt > 0
  /\ DashStep(playerOnCollision(player, 0, -1, 1), "onCollision", FALSE,
              lastOp.pendingDt, 0)

\* Game::run, the respawn
DashRespawn ==
  /\ lastOp.pendingDt = 0
  /\ DashStep(playerSetPos(player, 0, 0), "setPos", FALSE, 0, 0)

DashNext ==
  \/ DashHandleMovement
  \/ DashUpdate
  \/ DashStartDash
  \/ DashLanding
  \/ DashRespawn

SpecDash == DashInit /\ [][DashNext]_vars

\* C36: dash and cooldown never overlap and dashes are separated by the
\* cooldown: a dashing player has dashCooldownTimer <= 0, and once a dash
\* has ended (at dashDuration or by the released input) no dash starts
\* before the dt of the update calls since the end adds up to dashCooldown,
\* the dash input held or not.
C36_DashesAreSeparated ==
  [][ /\ player.dashing => player.dashCooldownTimer <= 0
      /\ player'.dashing => player'.dashCooldownTimer <= 0
      /\ (lastOp.ended /\ ~player.dashing /\ player'.dashing) =>
           lastOp.sinceEnd >= PLAYER_DASH_COOLDOWN ]_vars

\* A second dash started by the held dash input after the cooldown of the
\* first has run out
C36_Witness ==
  /\ lastOp.name = "handleMovement"
  /\ lastOp.dash
  /\ lastOp.ended
  /\ lastOp.sinceEnd = PLAYER_DASH_COOLDOWN
  /\ player.dashing
  /\ player.dashTimer = 0

\* The dash input held while the cooldown runs: no dash
C36_WitnessHeld ==
  /\ lastOp.name = "handleMovement"
  /\ lastOp.dash
  /\ lastOp.ended
  /\ lastOp.sinceEnd > 0
  /\ lastOp.sinceEnd < PLAYER_DASH_COOLDOWN
  /\ ~player.dashing
  /\ player.dashCooldownTimer > 0

\* ------------------------------------------------------------------------
\* Further claims about the frame: arrows, pause, support (SpecGame)
\* ------------------------------------------------------------------------
\* The ids of the arrows of a projectile list, in order
ArrowIds(projectiles) ==
  LET arrows == SelectSeq(projectiles,
                          LAMBDA pr : pr.projectileType = "ARROW")
  IN  [k \in DOMAIN arrows |-> arrows[k].id]

\* The cells of the arrows layer that hold a tile: Map::init made one arrow
\* of each
ArrowCells(m) ==
  { jk \in { <<j, k>> : j \in DOMAIN m.layers,
                        k \in 1..(m.width * m.height) } :
      /\ m.layers[jk[1]].name = ARROW_LAYER_NAME
      /\ m.layers[jk[1]].tiles[jk[2]] # NullTile }

\* C37: arrows are never pruned: in every frame, when the sweep
\* removeDeadProjectiles runs no ARROW has shouldRemove set, whether it was
\* updated, left the world bounds or hit the player, and the arrows of the
\* live projectile list after the frame are those before it, as many as
\* Map::init made.
C37_ArrowsAreNeverPruned ==
  lastOp.name = "frame" =>
    /\ \A i \in DOMAIN lastOp.atLoopEnd :
         lastOp.atLoopEnd[i].projectileType = "ARROW" =>
           ~lastOp.atLoopEnd[i].shouldRemove
    /\ ArrowIds(map.projectiles) = ArrowIds(lastOp.mapBefore.projectiles)
    /\ Len(ArrowIds(map.projectiles)) = Cardinality(ArrowCells(map))

\* A frame in which an arrow hit the player and stayed in the list
C37_Witness ==
  /\ lastOp.name = "frame"
  /\ ArrowHitInLoop(lastOp)
  /\ player.dead
  /\ Len(ArrowIds(map.projectiles)) > 1

\* A frame in which an arrow left the world and is back where it started
C37_WitnessRespawn ==
  /\ lastOp.name = "frame"
  /\ \E i \in DOMAIN map.projectiles :
       /\ map.projectiles[i].projectileType = "ARROW"
       /\ lastOp.mapBefore.projectiles[i].bounds.x
            # lastOp.mapBefore.projectiles[i].originalX
       /\ map.projectiles[i].bounds.x = map.projectiles[i].originalX
       /\ map.projectiles[i].bounds.y = map.projectiles[i].originalY

\* C38 as claimed: while the game is paused or won no step of Game::run
\* changes the player, the projectiles or the disappearing platforms, and
\* the pause flag changes only while the game is not won.
C38_IdleGameIsFrozen ==
  [][ /\ (game.isPaused \/ game.hasWon) => (player' = player /\ map' = map)
      /\ game'.isPaused # game.isPaused => ~game.hasWon ]_vars

\* C38, amended: while the game is paused or won a turn of the main loop
\* changes no simulation state, and the pause flag changes only while the
\* game is not won, with one exception: while the game is won the restart
\* key makes handleEvents call resetGame, which puts the player at the start
\* position with the dead flag cleared, resets the coins and clears hasWon
\* and isPaused.
C38_IdleGameChangesOnlyByRestart ==
  [][ /\ (game.isPaused \/ game.hasWon) =>
           \/ /\ player' = player
              /\ map' = map
              /\ game'.hasWon = game.hasWon
           \/ /\ game.hasWon
              /\ lastOp'.name = "resetGame"
              /\ player' = SoftReset(player)
              /\ map' = resetCoins(map)
              /\ game' = [hasWon |-> FALSE, isPaused |-> FALSE]
      /\ game'.isPaused # game.isPaused => ~game.hasWon
      /\ lastOp'.name = "idleFrame" =>
           (player' = player /\ map' = map /\ game' = game) ]_vars

\* A turn of the main loop with the game paused in mid-play, the player
\* away from the start position
C38_Witness ==
  /\ lastOp.name = "idleFrame"
  /\ game.isPaused
  /\ lastOp.count > 0
  /\ player.pos_y # PLAYER_START_Y

\* A turn of the main loop with the game won
C38_WitnessWon ==
  /\ lastOp.name = "idleFrame"
  /\ game.hasWon
  /\ ~game.isPaused

\* The game restarted after a win
C38_WitnessRestart ==
  /\ lastOp.name = "resetGame"
  /\ ~game.hasWon
  /\ map.coinsCollected = 0
  /\ map.totalCoins > 0

\* ------------------------------------------------------------------------
\* Further claims about the sweep of the resolver (SpecCollide)
\* ------------------------------------------------------------------------
\* The objects as the sweep has left them when the turn of the candidate at
\* place i comes
AtTurn(i) ==
  resolveCollisions(lastOp.before, "player", SubSeq(lastOp.objects, 1, i - 1))

\* The candidate at place i overlaps the player when its turn comes
OverlapsAtTurn(i) ==
  checkAABB(getCollisionBounds(AtTurn(i), "player"),
            getCollisionBounds(AtTurn(i), lastOp.objects[i]))

\* The callbacks the sweep delivered to obj, and to the player about obj
CallbacksTo(obj) == SelectSeq(calls, LAMBDA c : c.to = obj)

CallbacksAbout(obj) ==
  SelectSeq(calls, LAMBDA c : c.to = "player" /\ c.other = obj)

\* The candidates the player got a callback about, in the order of the
\* callbacks
CandidatesCalled ==
  LET toPlayer == SelectSeq(calls, LAMBDA c : c.to = "player")
  IN  [k \in DOMAIN toPlayer |-> toPlayer[k].other]

\* C39: resolveCollisions takes the candidates in list order and tests each
\* against the player's bounds as the push-outs of the earlier candidates
\* left them: a candidate that overlaps the player at its turn gets exactly
\* one callback pair, one that does not (any more) gets no callback and
\* moves nothing, and the callbacks come in the order of the list.
C39_SweepInListOrder ==
  lastOp.name = "resolveCollisions" =>
    /\ \A i \in DOMAIN lastOp.objects :
         LET n == IF OverlapsAtTurn(i) THEN 1 ELSE 0
         IN  /\ Len(CallbacksTo(lastOp.objects[i])) = n
             /\ Len(CallbacksAbout(lastOp.objects[i])) = n
             /\ ~OverlapsAtTurn(i) => AtTurn(i + 1) = AtTurn(i)
    /\ CandidatesCalled =
         SelectSeq(lastOp.objects,
                   LAMBDA o : \E i \in DOMAIN lastOp.objects :
                                lastOp.objects[i] = o /\ OverlapsAtTurn(i))
    /\ player = AtTurn(Len(lastOp.objects) + 1).player

\* The player overlaps two candidates when the sweep begins; the push-out
\* of the first takes it off the second, which gets no callback
C39_Witness ==
  /\ lastOp.name = "resolveCollisions"
  /\ Len(lastOp.objects) >= 2
  /\ checkAABB(lastOp.boundsA,
               getCollisionBounds(lastOp.before, lastOp.objects[1]))
  /\ checkAABB(lastOp.boundsA,
               getCollisionBounds(lastOp.before, lastOp.objects[2]))
  /\ getType(lastOp.objects[1]) = "STATIC_OBJECT"
  /\ Len(CallbacksTo(lastOp.objects[1])) = 1
  /\ Len(CallbacksTo(lastOp.objects[2])) = 0
  /\ player.pos_x # lastOp.before.player.pos_x
       \/ player.pos_y # lastOp.before.player.pos_y

\* The disappearing platforms a frame triggered: VISIBLE in the map the
\* frame started with, no longer VISIBLE in the map m it left
TriggeredIn(op, m) ==
  { i \in DOMAIN m.disappearingPlatforms :
      /\ op.mapBefore.disappearingPlatforms[i].state = "VISIBLE"
      /\ m.disappearingPlatforms[i].state # "VISIBLE" }

\* The ids of the colliders of a list
ColliderIds(colliders) == { colliders[k].id : k \in DOMAIN colliders }

\* The rectangle below player p that the ground check of
\* Game::updatePlayerPos probes
GroundProbe(p) ==
  LET playerBounds == playerGetCollisionBounds(p)
  IN  Rect(playerBounds.x, playerBounds.y + playerBounds.h,
           playerBounds.w, GROUND_CHECK_HEIGHT)

\* Map m holds a tile of a collidable layer, or a disappearing platform
\* other than those at the places in hidden, that reaches into rect
OtherSupport(m, rect, hidden) ==
  \/ \E j \in DOMAIN m.layers :
       /\ m.layers[j].collidable
       /\ \E k \in DOMAIN m.layers[j].tiles :
            /\ m.layers[j].tiles[k] # NullTile
            /\ checkAABB(rect, platGetCollisionBounds(m.layers[j].tiles[k]))
  \/ \E i \in DOMAIN m.disappearingPlatforms \ hidden :
       /\ canCollide(m.disappearingPlatforms[i])
       /\ checkAABB(rect, m.disappearingPlatforms[i].bounds)

\* The player as handleMovement of the frame recorded in op leaves player p
AfterInput(p, op) ==
  handleMovement(p, op.dt, op.keys.moveLeft, op.keys.moveRight, op.keys.jump,
                 op.keys.fastFall /\ ~p.onGround, op.keys.dash,
                 op.keys.crouch /\ p.onGround)

\* C40: a disappearing platform gives no support once triggered.  When a
\* frame has left the player grounded and has triggered a VISIBLE
\* DisappearingPlatform, the next frame finds that platform not VISIBLE and
\* gets it neither from the ground probe nor as a collider
\* (Map::getTilesInRect); and unless something else reaches into the ground
\* probe, the player's grounded flag is false when the ground check of that
\* next frame is done.
C40_TriggeredPlatformGivesNoSupport ==
  [][ ( /\ lastOp'.name = "frame"
        /\ lastOp.count > 0
        /\ TriggeredIn(lastOp, map) # {}
        /\ player.onGround ) =>
        /\ \A i \in TriggeredIn(lastOp, map) :
             /\ ~canCollide(map.disappearingPlatforms[i])
             /\ map.disappearingPlatforms[i].id
                  \notin ColliderIds(lastOp'.probed)
                           \cup ColliderIds(lastOp'.colliders)
        /\ ~OtherSupport(map, GroundProbe(AfterInput(player, lastOp')),
                         TriggeredIn(lastOp, map))
             => ~lastOp'.groundedAfterCheck ]_vars

\* A frame that began with the player standing on a platform triggered in
\* the frame before, the platform still within reach of the ground probe,
\* and that cleared the grounded flag in its ground check
C40_Witness ==
  /\ lastOp.name = "frame"
  /\ lastOp.count > 1
  /\ lastOp.playerBefore.onGround
  /\ ~lastOp.keys.jump
  /\ ~lastOp.groundedAfterCheck
  /\ lastOp.probed = <<>>
  /\ \E i \in DOMAIN lastOp.mapBefore.disappearingPlatforms :
       /\ lastOp.mapBefore.disappearingPlatforms[i].state = "DISAPPEARING"
       /\ checkAABB(GroundProbe(lastOp.playerBefore),
                    lastOp.mapBefore.disappearingPlatforms[i].bounds)

====
